---- MODULE Spec2Model ----
(***************************************************************************)
(* HelioStat: the GHI engine of main_solar_analysis.py (class              *)
(* SolarAnalysis), its loader and the main script's control flow.          *)
(*                                                                         *)
(* Numbers.  The program computes in IEEE 754 doubles, and so does the     *)
(* model: a double is a sign, an exponent and a significand of 53 bits,    *)
(* held in two halves because TLC's integers are 32 bits wide.  Sums,      *)
(* differences, products and quotients are rounded to the nearest double,  *)
(* ties to even.  np.cos is the cosine of the C library (GNU C library     *)
(* 2.36, built for fused multiply-add), computed step by step as the       *)
(* library computes it: its result is the double nearest to the cosine     *)
(* for most arguments and the next double for a few.                       *)
(* np.sum adds as numpy does: fewer than 8 values from left to right, 8 to *)
(* 128 values in eight running sums that are then combined in pairs, and   *)
(* longer arrays in two halves.                                            *)
(* An irradiance cell of the input table is a whole number of Wh/m^2 and a *)
(* declination cell a decimal with six places.  NaN, infinities and        *)
(* subnormal numbers do not occur (the loader drops rows with NaN).        *)
(***************************************************************************)
EXTENDS Integers, Sequences, FiniteSets, TLC

\* ------------------------------------------------------------------------
\* Bounds of the model
\* ------------------------------------------------------------------------

\* Rows in an input file.
MaxRows == 3

\* Largest window size given to analyze_sliding_window (sizes 0..MaxWindow,
\* and one size beyond twelve months).
MaxWindow == 3

\* Rows in an input file of the main script's run.
MaxMainRows == 1

\* Calls made on one analyzer.
MaxCalls == 2

\* ------------------------------------------------------------------------
\* Doubles (IEEE 754 binary64)
\* ------------------------------------------------------------------------

\* A double is <<s, e, h, l>>: the sign s (1 for negative) and the value
\* (h * 2^27 + l) * 2^e, where h * 2^27 + l is the significand of 53 bits
\* (2^25 <= h < 2^26, 0 <= l < 2^27). Zero is <<s, 0, 0, 0>>. The halves keep
\* every intermediate result below 2^31.

\* The element of a set of one element. Only({e : x \in {v}}) is e with x
\* bound to the value of v, which is computed once.
Only(S) == CHOOSE x \in S : TRUE

PosZero == <<0, 0, 0, 0>>

IsZero(a) == a[3] = 0 /\ a[4] = 0

\* The sticky bit: bit 0 of l is set when bits were lost below it.
Jam(l, lost) == IF lost /\ l % 2 = 0 THEN l + 1 ELSE l

\* The position of the highest set bit of n, 0 < n < 2^31.
TopBit(n) == CHOOSE k \in 0..30 : n \div 2^k = 1

\* t = <<e, h, l>> is an extended significand h * 2^30 + l (l of 30 bits,
\* three more than a double's) at exponent e, not zero: shifted left until
\* 2^25 <= h.
NormLeft(t) ==
    IF t[2] >= 2^25 THEN t
    ELSE IF t[2] > 0
         THEN Only({<<t[1] - d, t[2] * 2^d + t[3] \div 2^(30 - d), (t[3] % 2^(30 - d)) * 2^d>> :
                    d \in {25 - TopBit(t[2])}})
    ELSE Only({IF p <= 25 THEN <<t[1] - (55 - p), t[3] * 2^(25 - p), 0>>
            ELSE <<t[1] - (55 - p), t[3] \div 2^(p - 25), (t[3] % 2^(p - 25)) * 2^(55 - p)>> :
               p \in {TopBit(t[3])}})

\* Round to nearest, ties to even: the extended significand with
\* 2^25 <= h < 2^26 loses its three extra bits.
RoundNormal(s, e, h, l) ==
    LET keep == l \div 8
        grs  == l % 8
        up   == grs > 4 \/ (grs = 4 /\ keep % 2 = 1)
    IN  IF ~up THEN <<s, e + 3, h, keep>>
        ELSE IF keep + 1 < 2^27 THEN <<s, e + 3, h, keep + 1>>
        ELSE IF h + 1 < 2^26 THEN <<s, e + 3, h + 1, 0>>
        ELSE <<s, e + 4, 2^25, 0>>

\* The double nearest to (-1)^s * (h * 2^30 + l) * 2^e for t = <<e, h, l>>
\* with 2^25 <= h < 2^27 and bit 0 of l sticky.
RoundPack(s, t) ==
    IF t[2] >= 2^26
    THEN RoundNormal(s, t[1] + 1, t[2] \div 2,
                     Jam(t[3] \div 2 + (t[2] % 2) * 2^29, t[3] % 2 = 1))
    ELSE RoundNormal(s, t[1], t[2], t[3])

\* <<h, l>> shifted right by d >= 0 bits, the lost bits kept in the sticky bit.
ShiftRightJam(h, l, d) ==
    IF d = 0 THEN <<h, l>>
    ELSE IF d < 30
         THEN <<h \div 2^d, Jam(l \div 2^d + (h % 2^d) * 2^(30 - d), l % 2^d # 0)>>
    ELSE IF d < 56
         THEN <<0, Jam(h \div 2^(d - 30), l # 0 \/ h % 2^(d - 30) # 0)>>
    ELSE <<0, IF h # 0 \/ l # 0 THEN 1 ELSE 0>>

\* |a| < |b| for doubles that are not zero
MagLess(a, b) ==
    \/ a[2] < b[2]
    \/ a[2] = b[2] /\ (a[3] < b[3] \/ (a[3] = b[3] /\ a[4] < b[4]))

\* x + y of two doubles with |x| >= |y| > 0; shifted is the significand of y
\* aligned to the exponent of x.
AddAligned(x, y, shifted) ==
    IF x[1] = y[1]
    THEN RoundPack(x[1], <<x[2] - 3,
                           x[3] + shifted[1] + (x[4] * 8 + shifted[2]) \div 2^30,
                           (x[4] * 8 + shifted[2]) % 2^30>>)
    ELSE IF x[2] = y[2] /\ x[3] = y[3] /\ x[4] = y[4] THEN PosZero
    ELSE IF x[4] * 8 < shifted[2]
         THEN RoundPack(x[1], NormLeft(<<x[2] - 3, x[3] - shifted[1] - 1,
                                        x[4] * 8 - shifted[2] + 2^30>>))
    ELSE RoundPack(x[1], NormLeft(<<x[2] - 3, x[3] - shifted[1],
                                    x[4] * 8 - shifted[2]>>))

AddOrdered(x, y) ==
    Only({AddAligned(x, y, shifted) :
          shifted \in {ShiftRightJam(y[3], y[4] * 8, x[2] - y[2])}})

AddValues(a, b) ==
    IF IsZero(a)
    THEN (IF IsZero(b) THEN <<IF a[1] = 1 /\ b[1] = 1 THEN 1 ELSE 0, 0, 0, 0>> ELSE b)
    ELSE IF IsZero(b) THEN a
    ELSE IF MagLess(a, b) THEN AddOrdered(b, a)
    ELSE AddOrdered(a, b)

\* a + b
FAdd(a, b) == Only({AddValues(p[1], p[2]) : p \in {<<a, b>>}})

\* -a
FNeg(a) == Only({<<1 - x[1], x[2], x[3], x[4]>> : x \in {a}})

\* a - b
FSub(a, b) == Only({AddValues(p[1], p[2]) : p \in {<<a, FNeg(b)>>}})

\* The significand in four pieces of 14 bits, the lowest first.
Pieces14(h, l) ==
    <<l % 2^14, l \div 2^14 + (h % 2) * 2^13, (h \div 2) % 2^14, h \div 2^15>>

\* The columns of the product of two significands, before the carries (the
\* eighth takes the carries out of the seventh).
ProductColumns(x, y) ==
    <<x[1] * y[1],
      x[1] * y[2] + x[2] * y[1],
      x[1] * y[3] + x[2] * y[2] + x[3] * y[1],
      x[1] * y[4] + x[2] * y[3] + x[3] * y[2] + x[4] * y[1],
      x[2] * y[4] + x[3] * y[3] + x[4] * y[2],
      x[3] * y[4] + x[4] * y[3],
      x[4] * y[4],
      0>>

\* Carries. The columns c of a product are digits to the base given that
\* have grown beyond it (below the cube of the base); the top column takes no
\* carry out. A column is cut into three digits, which go to it and the two
\* columns above: the sums are below three times the base.
DigitSum(c, base, k) ==
    (c[k] % base)
      + (IF k > 1 THEN (c[k - 1] \div base) % base ELSE 0)
      + (IF k > 2 THEN c[k - 2] \div (base * base) ELSE 0)

\* The sums cut again: at most one above the base.
Settled(c, base, k) ==
    (DigitSum(c, base, k) % base)
      + (IF k > 1 THEN DigitSum(c, base, k - 1) \div base ELSE 0)

\* A carry of one comes into column k from the nearest column below that
\* has reached the base, through columns that are one short of it.
CarryInto(t, base, k) ==
    \E j \in 1..(k - 1) :
        t[j] >= base /\ \A m \in (j + 1)..(k - 1) : t[m] >= base - 1

\* The digits of the columns c after the carries.
Settle(c, base) ==
    Only({<<>> \o [k \in 1..Len(c) |->
                        (t[k] + (IF CarryInto(t, base, k) THEN 1 ELSE 0)) % base] :
          t \in {<<>> \o [k \in 1..Len(c) |-> Settled(c, base, k)]}})

\* The product p (106 bits in pieces) cut to an extended significand.
MulRound(s, e, p) ==
    RoundPack(s, NormLeft(
        <<e + 50,
          p[6] \div 2^10 + p[7] * 2^4 + p[8] * 2^18,
          Jam(p[4] \div 2^8 + p[5] * 2^6 + (p[6] % 2^10) * 2^20,
              p[4] % 2^8 # 0 \/ p[3] # 0 \/ p[2] # 0 \/ p[1] # 0)>>))

MulValues(a, b) ==
    IF IsZero(a) \/ IsZero(b) THEN <<(a[1] + b[1]) % 2, 0, 0, 0>>
    ELSE Only({Only({MulRound((a[1] + b[1]) % 2, a[2] + b[2], p) :
                               p \in {Settle(c, 2^14)}}) :
               c \in {ProductColumns(Pieces14(a[3], a[4]), Pieces14(b[3], b[4]))}})

\* a * b
FMul(a, b) == Only({MulValues(p[1], p[2]) : p \in {<<a, b>>}})

\* d times the significand of b, as <<high, low>> with a low part of 27 bits
Times(b, d) == <<b[3] * d + (b[4] * d) \div 2^27, (b[4] * d) % 2^27>>

PairLeq(x, y) == x[1] < y[1] \/ (x[1] = y[1] /\ x[2] <= y[2])

\* One digit (base 16) of the long division of the significands by b's:
\* st = <<rh, rl, qh, ql>> is the remainder and the quotient so far; the
\* result is the state after the digit.
DivStep(b, st) ==
    Only({<<st[1] - Times(b, d)[1] - (IF st[2] < Times(b, d)[2] THEN 1 ELSE 0),
              (st[2] - Times(b, d)[2] + 2^27) % 2^27,
              st[3] * 16 + (st[4] * 16 + d) \div 2^27,
              (st[4] * 16 + d) % 2^27>> :
          d \in {CHOOSE d \in 0..15 :
            /\ PairLeq(Times(b, d), <<st[1], st[2]>>)
            /\ d < 15 => ~PairLeq(Times(b, d + 1), <<st[1], st[2]>>)}})

\* n more digits: the remainder moves up one digit before each.
RECURSIVE DivideDigits(_, _, _)
DivideDigits(b, n, st) ==
    IF n = 1
    THEN DivStep(b, <<st[1] * 16 + (st[2] * 16) \div 2^27, (st[2] * 16) % 2^27,
                      st[3], st[4]>>)
    ELSE Only({DivideDigits(b, n - n \div 2, nx) :
               nx \in {DivideDigits(b, n \div 2, st)}})

\* The digits of the quotient: one before the point and QuotientDigits after it.
QuotientDigits == 14

DivValues(a, b) ==
    IF IsZero(a) THEN <<(a[1] + b[1]) % 2, 0, 0, 0>>
    ELSE Only({RoundPack((a[1] + b[1]) % 2,
                              NormLeft(<<a[2] - b[2] - 56, st[3] \div 8,
                                         Jam((st[3] % 8) * 2^27 + st[4],
                                             st[1] # 0 \/ st[2] # 0)>>)) :
               st \in {Only({DivideDigits(b, QuotientDigits, first) :
                    first \in {DivStep(b, <<a[3], a[4], 0, 0>>)}})}})

\* a / b, b not zero
FDiv(a, b) == Only({DivValues(p[1], p[2]) : p \in {<<a, b>>}})

\* a < b
LessValues(a, b) ==
    IF IsZero(a) THEN ~IsZero(b) /\ b[1] = 0
    ELSE IF IsZero(b) THEN a[1] = 1
    ELSE IF a[1] # b[1] THEN a[1] = 1
    ELSE IF a[1] = 0 THEN MagLess(a, b)
    ELSE MagLess(b, a)

FLess(a, b) == Only({LessValues(p[1], p[2]) : p \in {<<a, b>>}})

\* a > b, a >= b, a <= b, a == b (0.0 == -0.0)
FGreater(a, b) == FLess(b, a)
FGeq(a, b) == ~FLess(a, b)
FLeq(a, b) == ~FLess(b, a)
FEq(a, b) == Only({~LessValues(p[1], p[2]) /\ ~LessValues(p[2], p[1]) :
                   p \in {<<a, b>>}})

\* float(n) of an int n, |n| < 2^31
FromInt(n) ==
    Only({IF v = 0 THEN PosZero
        ELSE IF v < 0 THEN RoundPack(1, NormLeft(<<0, (-v) \div 2^30, (-v) % 2^30>>))
        ELSE RoundPack(0, NormLeft(<<0, v \div 2^30, v % 2^30>>)) :
          v \in {n}})

\* One unit of a decimal with six places.
Scale == 10^6

\* The double of a decimal text with six places, given as its digits n (the
\* number n / 10^6): the digits as a double, divided by 10^6.
FromDecimal(n) == FDiv(FromInt(n), FromInt(Scale))
\* ------------------------------------------------------------------------
\* Fused multiply-add
\* ------------------------------------------------------------------------

\* A wide number is NumPieces pieces of PieceBits bits, the lowest first: the
\* exact product of two significands next to a third one.
PieceBits == 14
NumPieces == 12

\* The PieceBits bits from position p up of the number with the pieces v
\* (any integer p; the bits outside v are zero).
BitsFrom(v, p) ==
    IF p <= -PieceBits \/ p >= PieceBits * Len(v) THEN 0
    ELSE IF p < 0 THEN (v[1] % 2^(PieceBits + p)) * 2^(-p)
    ELSE v[p \div PieceBits + 1] \div 2^(p % PieceBits)
           + (IF p \div PieceBits + 2 <= Len(v)
              THEN (v[p \div PieceBits + 2] % 2^(p % PieceBits))
                     * 2^(PieceBits - (p % PieceBits))
              ELSE 0)

\* The wide number v * 2^sh for the pieces v, sh >= 0.
ShiftInto(v, sh) ==
    <<>> \o [k \in 1..NumPieces |-> BitsFrom(v, PieceBits * (k - 1) - sh)]

WideLess(a, b) ==
    \E k \in 1..NumPieces : a[k] < b[k] /\ \A j \in (k + 1)..NumPieces : a[j] = b[j]

\* a + b, below 2^(PieceBits * NumPieces)
WideAdd(a, b) == Settle(<<>> \o [k \in 1..NumPieces |-> a[k] + b[k]], 2^PieceBits)

\* a - b for a >= b; piece k borrows when the pieces below it are less.
WideSub(a, b) ==
    <<>> \o [k \in 1..NumPieces |->
                (a[k] - b[k] + 2^PieceBits
                   - (IF \E j \in 1..(k - 1) :
                            a[j] < b[j] /\ \A m \in (j + 1)..(k - 1) : a[m] = b[m]
                      THEN 1 ELSE 0)) % 2^PieceBits]

\* The position of the highest set bit of the wide number v > 0.
TopOfWide(v) ==
    Only({PieceBits * (k - 1) + TopBit(v[k]) :
          k \in {CHOOSE k \in 1..NumPieces : v[k] # 0 /\ \A j \in (k + 1)..NumPieces : v[j] = 0}})

\* No bit of v below position p is set.
LowBitsZero(v, p) ==
    \A k \in 1..NumPieces :
        IF PieceBits * k <= p THEN v[k] = 0
        ELSE IF PieceBits * (k - 1) < p THEN v[k] % 2^(p - PieceBits * (k - 1)) = 0
        ELSE TRUE

\* The double nearest to (-1)^s * v * 2^e for the wide number v > 0; top is
\* the position of its highest set bit.
WideRoundAt(s, v, e, top) ==
    RoundPack(s, <<e + top - 55,
                   BitsFrom(v, top - 13) * 2^12 + (BitsFrom(v, top - 25) % 2^12),
                   Jam(BitsFrom(v, top - 39) * 2^16 + BitsFrom(v, top - 53) * 2^2
                         + (BitsFrom(v, top - 55) % 2^2),
                       ~LowBitsZero(v, top - 55))>>)

WideRound(s, v, e) ==
    Only({Only({WideRoundAt(s, w, e, top) :
                             top \in {TopOfWide(w)}}) :
          w \in {v}})

\* The least bits of an addend that lies wholly below the product: more than
\* nothing, less than one.
StickyBit == <<1, 0, 0, 0, 0, 0, 0, 0, 0, 0, 0, 0>>

\* An addend more than AddendAbove bits above the product is the result; one
\* more than AddendBelow bits below it only decides the rounding.
AddendAbove == 114
AddendBelow == 61

\* p is the exact product of two significands at the exponent e, and the
\* exponent of the addend c is d above e: <<product, addend, exponent>>, the
\* two as wide numbers at one exponent.
FmaFrame(e, p, d, c) ==
    IF d < -AddendBelow THEN <<ShiftInto(p, 2), StickyBit, e - 2>>
    ELSE IF d >= 0 THEN <<ShiftInto(p, 0), ShiftInto(Pieces14(c[3], c[4]), d), e>>
    ELSE <<ShiftInto(p, -d), ShiftInto(Pieces14(c[3], c[4]), 0), c[2]>>

\* The sum of the product (sign s) and the addend (sign t) of the frame f,
\* which differ: <<sign, greater, less>>.
FmaOrdered(s, t, f) ==
    IF WideLess(f[1], f[2]) THEN <<t, f[2], f[1]>> ELSE <<s, f[1], f[2]>>

FmaSum(s, t, f) ==
    IF s = t THEN WideRound(s, WideAdd(f[1], f[2]), f[3])
    ELSE IF f[1] = f[2] THEN PosZero
    ELSE Only({WideRound(o[1], WideSub(o[2], o[3]), f[3]) :
               o \in {FmaOrdered(s, t, f)}})

FmaValues(a, b, c) ==
    IF IsZero(a) \/ IsZero(b) THEN AddValues(<<(a[1] + b[1]) % 2, 0, 0, 0>>, c)
    ELSE IF IsZero(c) THEN MulValues(a, b)
    ELSE IF c[2] - (a[2] + b[2]) > AddendAbove THEN c
    ELSE Only({Only({FmaSum((a[1] + b[1]) % 2, c[1], f) :
                               f \in {FmaFrame(a[2] + b[2], p, c[2] - (a[2] + b[2]), c)}}) :
               p \in {Settle(ProductColumns(Pieces14(a[3], a[4]), Pieces14(b[3], b[4])), 2^PieceBits)}})

\* fma(a, b, c): a * b + c, rounded once
FFma(a, b, c) == Only({FmaValues(t[1], t[2], t[3]) : t \in {<<a, b, c>>}})

\* |a|
FAbs(a) == Only({<<0, x[2], x[3], x[4]>> : x \in {a}})

\* copysign(a, b)
CopySign(a, b) == Only({<<p[2][1], p[1][2], p[1][3], p[1][4]>> :
                        p \in {<<a, b>>}})

\* ------------------------------------------------------------------------
\* Cosine
\* ------------------------------------------------------------------------

\* np.cos of a double is the C library's cos. The GNU C library (2.36, the
\* build for processors with fused multiply-add) computes it in doubles, from
\* a table of the sines and cosines of the multiples of 1/128 and two short
\* polynomials. Its result is the double nearest to the cosine for most
\* arguments and the next double for about one in a thousand. The library's
\* code is kept here as it runs: blocks of instructions on named values, each
\* instruction one rounded operation, and the branches between the blocks.

\* __sincostab: entry k + 1 is <<sn, ssn, cs, ccs>> with sin(k/128) = sn + ssn
\* and cos(k/128) = cs + ccs.
SinCosTab ==
   <<
      <<<<0, 0, 0, 0>>,
        <<0, 0, 0, 0>>,
        <<0, -52, 33554432, 0>>,
        <<0, 0, 0, 0>>>>,
      <<<<0, -60, 67108181, 45018863>>,
        <<1, -114, 63487069, 73906044>>,
        <<0, -53, 67106816, 1398098>>,
        <<0, -107, 65617972, 1666478>>>>,
      <<<<0, -59, 67106133, 49213141>>,
        <<1, -115, 39152755, 43976567>>,
        <<0, -53, 67100672, 22369439>>,
        <<0, -107, 38880532, 3825395>>>>,
      <<<<0, -58, 50327040, 16986709>>,
        <<0, -116, 64996714, 22180662>>,
        <<0, -53, 67090432, 113244134>>,
        <<0, -107, 56417117, 6911933>>>>,
      <<<<0, -58, 67097941, 116320367>>,
        <<1, -112, 60457183, 52579042>>,
        <<0, -53, 67076098, 89466835>>,
        <<1, -107, 41330834, 47749979>>>>,
      <<<<0, -57, 41932374, 19744213>>,
        <<0, -112, 43879044, 4004881>>,
        <<0, -53, 67057670, 68462522>>,
        <<0, -109, 53624471, 107764159>>>>,
      <<<<0, -57, 50313218, 3341225>>,
        <<1, -111, 45299646, 74357114>>,
        <<0, -53, 67035149, 66976159>>,
        <<1, -108, 51803820, 6589791>>>>,
      <<<<0, -57, 58690991, 5795244>>,
        <<0, -114, 52207520, 64746038>>,
        <<0, -53, 67008537, 1063473>>,
        <<0, -108, 43036087, 98307686>>>>,
      <<<<0, -57, 67065181, 116215515>>,
        <<1, -111, 39464358, 40389481>>,
        <<0, -53, 66977834, 88732883>>,
        <<0, -107, 40175375, 60375663>>>>,
      <<<<0, -56, 37717639, 92310511>>,
        <<1, -110, 65513052, 116637263>>,
        <<0, -53, 66943044, 44625823>>,
        <<0, -110, 49441062, 83184759>>>>,
      <<<<0, -56, 41900386, 47281499>>,
        <<1, -110, 52703786, 43599500>>,
        <<0, -53, 66904168, 19525487>>,
        <<1, -109, 60287078, 130641815>>>>,
      <<<<0, -56, 46080575, 84981559>>,
        <<1, -110, 33753568, 46043394>>,
        <<0, -53, 66861208, 63468523>>,
        <<1, -112, 45431072, 92031490>>>>,
      <<<<0, -56, 50257952, 52777188>>,
        <<0, -112, 56591779, 20506>>,
        <<0, -53, 66814167, 125725595>>,
        <<0, -107, 40050774, 87423195>>>>,
      <<<<0, -56, 54432261, 89510393>>,
        <<0, -110, 38612399, 111943105>>,
        <<0, -53, 66763049, 54779904>>,
        <<1, -109, 39644441, 55546617>>>>,
      <<<<0, -56, 58603248, 90716445>>,
        <<0, -110, 64106627, 99241160>>,
        <<0, -53, 66707856, 956849>>,
        <<0, -109, 64256752, 114394796>>>>,
      <<<<0, -56, 62770658, 113364198>>,
        <<1, -111, 44167621, 129439347>>,
        <<0, -53, 66648591, 13745288>>,
        <<0, -107, 34519624, 75347589>>>>,
      <<<<0, -56, 66934237, 109506102>>,
        <<1, -111, 56596055, 80146491>>,
        <<0, -53, 66585258, 41769939>>,
        <<0, -107, 57482858, 9760696>>>>,
      <<<<0, -55, 35546865, 98398673>>,
        <<0, -109, 61902094, 38735774>>,
        <<0, -53, 66517861, 66979477>>,
        <<0, -107, 37991870, 83253937>>>>,
      <<<<0, -55, 37624442, 128962223>>,
        <<1, -109, 48100001, 26700197>>,
        <<0, -53, 66446404, 104614867>>,
        <<1, -110, 44390850, 54142825>>>>,
      <<<<0, -55, 39699723, 105560207>>,
        <<1, -109, 63545824, 98492504>>,
        <<0, -53, 66370892, 68957938>>,
        <<0, -111, 34190557, 85445756>>>>,
      <<<<0, -55, 41772581, 73230027>>,
        <<0, -109, 42970317, 57068433>>,
        <<0, -53, 66291329, 41731112>>,
        <<0, -107, 59469152, 104559714>>>>,
      <<<<0, -55, 43842889, 96858747>>,
        <<0, -110, 53033829, 46166780>>,
        <<0, -53, 66207720, 3624193>>,
        <<1, -109, 49940457, 87727692>>>>,
      <<<<0, -55, 45910521, 128001779>>,
        <<1, -109, 48138336, 104827318>>,
        <<0, -53, 66120069, 102690038>>,
        <<1, -107, 59548316, 20130582>>>>,
      <<<<0, -55, 47975352, 5918028>>,
        <<1, -118, 40209297, 58837312>>,
        <<0, -53, 66028383, 117431844>>,
        <<1, -108, 52341624, 74793137>>>>,
      <<<<0, -55, 50037253, 129692341>>,
        <<0, -111, 45443612, 37525443>>,
        <<0, -53, 65932667, 127847964>>,
        <<1, -107, 47388929, 70704308>>>>,
      <<<<0, -55, 52096101, 117090628>>,
        <<1, -109, 37876812, 46905683>>,
        <<0, -53, 65832927, 112732877>>,
        <<0, -108, 47579480, 33433772>>>>,
      <<<<0, -55, 54151770, 13550354>>,
        <<0, -110, 54036400, 11604861>>,
        <<0, -53, 65729169, 83847063>>,
        <<0, -109, 63390119, 100905429>>>>,
      <<<<0, -55, 56204133, 24774501>>,
        <<1, -110, 53544810, 131517931>>,
        <<0, -53, 65621399, 85867129>>,
        <<0, -107, 36159005, 95337303>>>>,
      <<<<0, -55, 58253065, 115106201>>,
        <<0, -109, 54015149, 41618603>>,
        <<0, -53, 65509624, 62116206>>,
        <<1, -109, 37963610, 42611860>>>>,
      <<<<0, -55, 60298443, 8554915>>,
        <<1, -109, 51190291, 63470699>>,
        <<0, -53, 65393850, 122945517>>,
        <<0, -107, 60326955, 123131267>>>>,
      <<<<0, -55, 62340139, 129344976>>,
        <<1, -109, 40223770, 114061250>>,
        <<0, -53, 65274086, 8807583>>,
        <<0, -108, 57835650, 113350731>>>>,
      <<<<0, -55, 64378031, 126543267>>,
        <<1, -109, 35111125, 123153643>>,
        <<0, -53, 65150337, 29722427>>,
        <<0, -107, 62000718, 103551619>>>>,
      <<<<0, -55, 66411994, 83039607>>,
        <<1, -109, 36417802, 9319096>>,
        <<0, -53, 65022611, 125693601>>,
        <<0, -107, 61309907, 31836925>>>>,
      <<<<0, -54, 34220951, 124065116>>,
        <<1, -108, 53942355, 100503240>>,
        <<0, -53, 64890918, 864038>>,
        <<1, -107, 39142241, 14603122>>>>,
      <<<<0, -54, 35233817, 116614198>>,
        <<1, -108, 54485313, 76800693>>,
        <<0, -53, 64755263, 62976284>>,
        <<1, -111, 58696816, 12305329>>>>,
      <<<<0, -54, 36244533, 43310571>>,
        <<1, -109, 58527798, 95819172>>,
        <<0, -53, 64615656, 81129377>>,
        <<1, -110, 44933449, 49627600>>>>,
      <<<<0, -54, 37253036, 80132214>>,
        <<0, -108, 42733279, 101568501>>,
        <<0, -53, 64472105, 125235112>>,
        <<1, -107, 33944546, 45765694>>>>,
      <<<<0, -54, 38259266, 18526006>>,
        <<1, -108, 43913222, 55508760>>,
        <<0, -53, 64324620, 29077327>>,
        <<0, -109, 39336615, 110388621>>>>,
      <<<<0, -54, 39263160, 71218335>>,
        <<0, -109, 36349715, 32692231>>,
        <<0, -53, 64173208, 61328771>>,
        <<1, -107, 38062435, 63257832>>>>,
      <<<<0, -54, 40264658, 67411847>>,
        <<0, -108, 63018710, 67907628>>,
        <<0, -53, 64017879, 120170989>>,
        <<0, -107, 52899679, 96164007>>>>,
      <<<<0, -54, 41263698, 124376024>>,
        <<0, -115, 34056864, 75989912>>,
        <<0, -53, 63858644, 1654080>>,
        <<1, -107, 46682470, 88526355>>>>,
      <<<<0, -54, 42260220, 111077015>>,
        <<1, -108, 65091818, 117818783>>,
        <<0, -53, 63695510, 70707664>>,
        <<0, -107, 50160122, 3131580>>>>,
      <<<<0, -54, 43254163, 51330336>>,
        <<0, -108, 50624333, 61902509>>,
        <<0, -53, 63528489, 53101724>>,
        <<1, -107, 47289349, 109733939>>>>,
      <<<<0, -54, 44245465, 124299130>>,
        <<0, -108, 57060906, 99545331>>,
        <<0, -53, 63357590, 109106853>>,
        <<1, -108, 38728309, 33641015>>>>,
      <<<<0, -54, 45234067, 128120215>>,
        <<0, -109, 49867125, 71295179>>,
        <<0, -53, 63182825, 28104385>>,
        <<1, -110, 46929368, 133129068>>>>,
      <<<<0, -54, 46219909, 17270645>>,
        <<0, -110, 56883969, 61378867>>,
        <<0, -53, 63004203, 33807310>>,
        <<0, -110, 66919648, 41360102>>>>,
      <<<<0, -54, 47202929, 37279735>>,
        <<1, -108, 61936192, 38029997>>,
        <<0, -53, 62821735, 113084254>>,
        <<1, -107, 63287631, 107427524>>>>,
      <<<<0, -54, 48183068, 54133333>>,
        <<0, -108, 42301481, 115989005>>,
        <<0, -53, 62635434, 15870166>>,
        <<1, -109, 63969562, 69968575>>>>,
      <<<<0, -54, 49160266, 91636244>>,
        <<1, -109, 48061158, 21739214>>,
        <<0, -53, 62445309, 60381458>>,
        <<0, -110, 43412622, 124636469>>>>,
      <<<<0, -54, 50134464, 63466830>>,
        <<1, -108, 57440155, 46095090>>,
        <<0, -53, 62251373, 59281027>>,
        <<0, -107, 54825925, 56515818>>>>,
      <<<<0, -54, 51105602, 42101065>>,
        <<0, -108, 51675603, 56601824>>,
        <<0, -53, 62053637, 124889564>>,
        <<0, -107, 67027834, 97649565>>>>,
      <<<<0, -54, 52073620, 125081903>>,
        <<0, -108, 42549341, 41313062>>,
        <<0, -53, 61852114, 132217674>>,
        <<1, -109, 41348614, 86764948>>>>,
      <<<<0, -54, 53038461, 32851653>>,
        <<1, -108, 47422503, 107495256>>,
        <<0, -53, 61646816, 121520192>>,
        <<1, -107, 49039048, 55307319>>>>,
      <<<<0, -54, 54000064, 48760080>>,
        <<0, -108, 34850612, 52474020>>,
        <<0, -53, 61437756, 29759968>>,
        <<0, -107, 65443694, 126193505>>>>,
      <<<<0, -54, 54958371, 80022730>>,
        <<1, -110, 54927815, 55627469>>,
        <<0, -53, 61224945, 93158406>>,
        <<0, -108, 63708070, 9030621>>>>,
      <<<<0, -54, 55913324, 60854903>>,
        <<1, -109, 46475222, 20710273>>,
        <<0, -53, 61008398, 41784560>>,
        <<0, -107, 35300707, 113353870>>>>,
      <<<<0, -54, 56864864, 87168535>>,
        <<1, -108, 56379481, 60421401>>,
        <<0, -53, 60788127, 38972831>>,
        <<0, -107, 51820202, 9382413>>>>,
      <<<<0, -54, 57812934, 14396483>>,
        <<1, -108, 63378853, 124534769>>,
        <<0, -53, 60564146, 10126053>>,
        <<0, -107, 37627703, 53547162>>>>,
      <<<<0, -54, 58757474, 129056931>>,
        <<0, -109, 36961486, 92184487>>,
        <<0, -53, 60336468, 45258542>>,
        <<0, -109, 43893445, 61356696>>>>,
      <<<<0, -54, 59698429, 75485598>>,
        <<1, -110, 64367011, 37574694>>,
        <<0, -53, 60105107, 130448651>>,
        <<1, -109, 42815529, 6173794>>>>,
      <<<<0, -54, 60635740, 64267551>>,
        <<1, -109, 39817538, 47899288>>,
        <<0, -53, 59870079, 13507204>>,
        <<0, -108, 55999028, 22610211>>>>,
      <<<<0, -54, 61569350, 67401313>>,
        <<0, -108, 38881428, 123716252>>,
        <<0, -53, 59631396, 9168187>>,
        <<1, -107, 48774015, 61528898>>>>,
      <<<<0, -54, 62499202, 87202970>>,
        <<0, -108, 35297500, 24247706>>,
        <<0, -53, 59389073, 59447134>>,
        <<1, -109, 37189255, 60467328>>>>,
      <<<<0, -54, 63425240, 22555241>>,
        <<1, -110, 34902082, 10090639>>,
        <<0, -53, 59143126, 1957249>>,
        <<1, -107, 60120765, 109233600>>>>,
      <<<<0, -54, 64347406, 72025584>>,
        <<1, -110, 49362567, 77267581>>,
        <<0, -53, 58893568, 106659152>>,
        <<1, -107, 51528226, 51570728>>>>,
      <<<<0, -54, 65265645, 63240571>>,
        <<0, -108, 36586079, 10965596>>,
        <<0, -53, 58640417, 1996086>>,
        <<0, -107, 57637602, 103328161>>>>,
      <<<<0, -54, 66179900, 124435607>>,
        <<0, -110, 54209045, 120389795>>,
        <<0, -53, 58383686, 16946421>>,
        <<0, -108, 40073113, 9179293>>>>,
      <<<<0, -54, 67090117, 13825402>>,
        <<0, -109, 65622821, 110123882>>,
        <<0, -53, 58123391, 107155250>>,
        <<0, -108, 48593480, 86837817>>>>,
      <<<<0, -53, 33998119, 29792597>>,
        <<1, -107, 39524783, 3767041>>,
        <<0, -53, 57859549, 123241486>>,
        <<0, -110, 42682264, 126856672>>>>,
      <<<<0, -53, 34449104, 110390875>>,
        <<0, -107, 41858504, 87621403>>,
        <<0, -53, 57592176, 79103170>>,
        <<1, -107, 65734936, 35338395>>>>,
      <<<<0, -53, 34897987, 111022081>>,
        <<1, -107, 48154740, 20518134>>,
        <<0, -53, 57321288, 17567822>>,
        <<0, -110, 52424488, 117602838>>>>,
      <<<<0, -53, 35344740, 112551726>>,
        <<1, -107, 55253982, 12511497>>,
        <<0, -53, 57046901, 10258760>>,
        <<0, -107, 64279715, 85945513>>>>,
      <<<<0, -53, 35789336, 79076411>>,
        <<0, -107, 62009651, 8427905>>,
        <<0, -53, 56769032, 23241926>>,
        <<0, -108, 37464771, 117162178>>>>,
      <<<<0, -53, 36231747, 126582658>>,
        <<0, -108, 58665579, 103233960>>,
        <<0, -53, 56487698, 51106421>>,
        <<1, -108, 66088015, 24407956>>>>,
      <<<<0, -53, 36671947, 120516016>>,
        <<0, -109, 40618722, 3024008>>,
        <<0, -53, 56202916, 116825573>>,
        <<0, -107, 52391249, 97957580>>>>,
      <<<<0, -53, 37109909, 78655453>>,
        <<1, -110, 65216910, 13350399>>,
        <<0, -53, 55914705, 3180819>>,
        <<1, -115, 57703104, 130895984>>>>,
      <<<<0, -53, 37545606, 37115724>>,
        <<0, -108, 38094836, 83107162>>,
        <<0, -53, 55623080, 57925677>>,
        <<0, -109, 53985479, 6211474>>>>,
      <<<<0, -53, 37979011, 50566351>>,
        <<0, -110, 63661641, 52668977>>,
        <<0, -53, 55328060, 119899823>>,
        <<0, -107, 45114908, 50152767>>>>,
      <<<<0, -53, 38410098, 58231739>>,
        <<0, -108, 64256516, 72858830>>,
        <<0, -53, 55029664, 55754191>>,
        <<1, -107, 47298397, 77698665>>>>,
      <<<<0, -53, 38838841, 18325607>>,
        <<1, -107, 33799739, 27356016>>,
        <<0, -53, 54727909, 28238917>>,
        <<0, -112, 53200046, 57410392>>>>,
      <<<<0, -53, 39265213, 42484254>>,
        <<1, -107, 66350651, 52521648>>,
        <<0, -53, 54422813, 93400965>>,
        <<1, -107, 37371928, 91821574>>>>,
      <<<<0, -53, 39689188, 127545474>>,
        <<0, -107, 61254396, 15197054>>,
        <<0, -53, 54114396, 66215516>>,
        <<0, -107, 41890338, 43597666>>>>,
      <<<<0, -53, 40110742, 21544015>>,
        <<0, -107, 65890369, 22680411>>,
        <<0, -53, 53802676, 57304340>>,
        <<0, -107, 48519673, 77572009>>>>,
      <<<<0, -53, 40529847, 29229927>>,
        <<0, -109, 57036751, 49299696>>,
        <<0, -53, 53487672, 70128400>>,
        <<0, -107, 61079296, 76083341>>>>,
      <<<<0, -53, 40946478, 72755243>>,
        <<1, -108, 35780021, 20645800>>,
        <<0, -53, 53169404, 831997>>,
        <<1, -107, 35119028, 35620397>>>>,
      <<<<0, -53, 41360610, 94536714>>,
        <<1, -108, 53398132, 131264635>>,
        <<0, -53, 52847890, 40738450>>,
        <<1, -107, 58125824, 56626394>>>>,
      <<<<0, -53, 41772218, 57464122>>,
        <<1, -110, 58502684, 22482880>>,
        <<0, -53, 52523151, 5102327>>,
        <<1, -108, 35640865, 45693831>>>>,
      <<<<0, -53, 42181276, 79325072>>,
        <<0, -107, 42734074, 42462453>>,
        <<0, -53, 52195206, 4037329>>,
        <<1, -109, 42759318, 87903224>>>>,
      <<<<0, -53, 42587760, 30357611>>,
        <<1, -107, 41790851, 107631877>>,
        <<0, -53, 51864075, 39700736>>,
        <<0, -107, 51149831, 110392513>>>>,
      <<<<0, -53, 42991644, 70325663>>,
        <<1, -107, 56830286, 73657616>>,
        <<0, -53, 51529779, 6129439>>,
        <<0, -107, 59317048, 68414852>>>>,
      <<<<0, -53, 43392904, 111851361>>,
        <<0, -113, 35340462, 59557274>>,
        <<0, -53, 51192337, 91727558>>,
        <<0, -108, 40312828, 46131677>>>>,
      <<<<0, -53, 43791516, 89052443>>,
        <<1, -107, 55125489, 28821354>>,
        <<0, -53, 50851771, 108010656>>,
        <<1, -111, 36329964, 10209000>>>>,
      <<<<0, -53, 44187455, 91960604>>,
        <<1, -107, 45620492, 29657137>>,
        <<0, -53, 50508102, 26307933>>,
        <<1, -109, 62723873, 58861790>>>>,
      <<<<0, -53, 44580697, 98285348>>,
        <<0, -108, 38164560, 86037393>>,
        <<0, -53, 50161349, 111809672>>,
        <<0, -110, 54766772, 77960607>>>>,
      <<<<0, -53, 44971218, 107829683>>,
        <<0, -110, 59803497, 84914584>>,
        <<0, -53, 49811535, 118089039>>,
        <<1, -109, 59669210, 120254056>>>>,
      <<<<0, -53, 45358995, 8469010>>,
        <<1, -107, 61889622, 131342971>>,
        <<0, -53, 49458681, 92235075>>,
        <<1, -107, 55987933, 30694116>>>>,
      <<<<0, -53, 45744002, 113217293>>,
        <<0, -107, 53319278, 15423370>>,
        <<0, -53, 49102808, 106242335>>,
        <<1, -109, 50657977, 126642373>>>>,
      <<<<0, -53, 46126218, 86679127>>,
        <<0, -107, 35051998, 133046455>>,
        <<0, -53, 48743938, 122616737>>,
        <<1, -109, 45774279, 93629791>>>>,
      <<<<0, -53, 46505619, 18984057>>,
        <<1, -107, 64729866, 95822874>>,
        <<0, -53, 48382093, 128415352>>,
        <<0, -107, 42251796, 84057217>>>>,
      <<<<0, -53, 46882181, 23324501>>,
        <<0, -107, 35970861, 57738556>>,
        <<0, -53, 48017296, 849246>>,
        <<0, -107, 46158043, 115069094>>>>,
      <<<<0, -53, 47255881, 101927727>>,
        <<1, -107, 47643246, 105174502>>,
        <<0, -53, 47649567, 43973469>>,
        <<0, -108, 36395248, 114095282>>>>,
      <<<<0, -53, 47626698, 12026394>>,
        <<1, -109, 45785777, 124792335>>,
        <<0, -53, 47278930, 48980563>>,
        <<1, -107, 53814107, 25557148>>>>,
      <<<<0, -53, 47994607, 71351777>>,
        <<1, -108, 35448112, 92253523>>,
        <<0, -53, 46905407, 99323066>>,
        <<1, -110, 53445480, 120814711>>>>,
      <<<<0, -53, 48359587, 84577344>>,
        <<0, -109, 53468103, 8746765>>,
        <<0, -53, 46529022, 33657287>>,
        <<0, -109, 62007409, 22501103>>>>,
      <<<<0, -53, 48721616, 14591352>>,
        <<1, -108, 38047840, 115085986>>,
        <<0, -53, 46149796, 116745183>>,
        <<0, -107, 42833084, 14955216>>>>,
      <<<<0, -53, 49080670, 116897060>>,
        <<0, -108, 64202738, 78415016>>,
        <<0, -53, 45767754, 99742074>>,
        <<0, -107, 33957920, 80251179>>>>,
      <<<<0, -53, 49436730, 269650>>,
        <<1, -107, 56090813, 112415979>>,
        <<0, -53, 45382919, 25313399>>,
        <<0, -107, 42276164, 123321954>>>>,
      <<<<0, -53, 49789771, 103330754>>,
        <<0, -111, 56238895, 80544659>>,
        <<0, -53, 44995313, 93225970>>,
        <<0, -107, 65594005, 120073507>>>>,
      <<<<0, -53, 50139774, 84113753>>,
        <<0, -107, 35512181, 40176716>>,
        <<0, -53, 44604961, 123284645>>,
        <<1, -107, 63921436, 113747503>>>>,
      <<<<0, -53, 50486717, 28199844>>,
        <<1, -107, 49307995, 121646554>>,
        <<0, -53, 44211887, 92009434>>,
        <<0, -108, 42942992, 7586393>>>>
   >>

\* The library's numbers. big = 1.5 * 2^45: a double below 2^25 added to it is
\* rounded to a multiple of 1/128. sn3, sn5 and cs2, cs4, cs6: the polynomials
\* of the sine and the cosine of a small difference. s1 .. s5: the polynomial
\* of the sine below 0.126. hp0 + hp1 = pi/2. hpinv = 2/pi, toint = 1.5 * 2^52,
\* mp1 + mp2 + pp3 + pp4 = pi/2. After them the variables of the code, x the
\* argument: they hold 0.0 until they are assigned.
LibraryNumbers ==
    [one |-> <<0, -52, 33554432, 0>>, zero |-> <<0, 0, 0, 0>>,
     big |-> <<0, -7, 50331648, 0>>,
     sn3 |-> <<1, -55, 44739242, 89478421>>, sn5 |-> <<0, -59, 35791389, 2721583>>,
     cs2 |-> <<0, -53, 33554432, 0>>, cs4 |-> <<1, -57, 44739242, 89478453>>,
     cs6 |-> <<0, -62, 47721853, 98165305>>,
     s1 |-> <<1, -55, 44739242, 89478485>>, s2 |-> <<0, -59, 35791394, 17895118>>,
     s3 |-> <<1, -65, 54539267, 31131832>>, s4 |-> <<0, -71, 48479311, 60456665>>,
     s5 |-> <<1, -78, 56344568, 50126681>>,
     hp0 |-> <<0, -52, 52707178, 71576856>>, hp1 |-> <<0, -106, 37012678, 51665927>>,
     hpinv |-> <<0, -53, 42722829, 97110147>>, toint |-> <<0, 0, 50331648, 0>>,
     mp1 |-> <<0, -52, 52707179, 0>>, mp2 |-> <<1, -79, 62640871, 67108864>>,
     pp3 |-> <<1, -107, 60192371, 0>>, pp4 |-> <<1, -135, 61771748, 65220311>>,
     x |-> PosZero, ax |-> PosZero, res |-> PosZero, a |-> PosZero,
     da |-> PosZero, k |-> PosZero, y |-> PosZero, ya |-> PosZero,
     t |-> PosZero, xn |-> PosZero, y1 |-> PosZero, t2 |-> PosZero,
     yt |-> PosZero, db |-> PosZero, tb |-> PosZero, db2 |-> PosZero,
     aa |-> PosZero, dx |-> PosZero, u |-> PosZero, ub |-> PosZero,
     r0 |-> PosZero, r |-> PosZero, xx |-> PosZero, ps |-> PosZero,
     r3 |-> PosZero, s |-> PosZero, pc1 |-> PosZero, pc |-> PosZero,
     c |-> PosZero, sn |-> PosZero, ssn |-> PosZero, cs |-> PosZero,
     ccs |-> PosZero, cor1 |-> PosZero, cor2 |-> PosZero, cor |-> PosZero,
     p4 |-> PosZero, p3 |-> PosZero, p2 |-> PosZero, p1 |-> PosZero,
     hd |-> PosZero, pa |-> PosZero, s1d |-> PosZero, c0 |-> PosZero,
     v |-> PosZero]

\* The limits of the library's cases: 2^-27, 0.85546875, 2.4262638092041016,
\* 105414336 and 0.126.
TinyLimit == <<0, -79, 33554432, 0>>
TableLimit == <<0, -53, 57409536, 0>>
HalfPiLimit == <<0, -51, 40705952, 0>>
ReduceLimit == <<0, -26, 52707168, 0>>
TaylorLimit == <<0, -55, 33822867, 61203284>>

\* The blocks of __cos. An instruction <<v, op, a, b, c>> gives the value v
\* the result of op on the values a, b, c:
\*   add a + b, sub a - b, mul a * b, fma a * b + c, fnma -(a * b) + c,
\*   fms a * b - c, mov a, neg -a, abs |a|, copysign, neg_if_lt (-a if b < 0,
\*   else a), neg_if_le (-a if b <= 0, else a), sn ssn cs ccs (the table
\*   entry of u = big + |x|), quadrant (the last two bits of the whole number
\*   in t = toint + xn, plus one), int (a number).
\* x is the argument; a + da is the reduced argument; k says which function
\* of it is the cosine of x, as the third argument of do_sincos does: the
\* cosine if k is odd, the sine if not, negated if the bit 2 of k is set.
LibraryCode ==
    [cos |-> << <<"ax", "abs", "x">> >>,
     tiny |-> << <<"res", "mov", "one">> >>,
     small |-> << <<"a", "mov", "x">>, <<"da", "mov", "zero">>, <<"k", "int", 1>> >>,
     near_half_pi |->
        << <<"y", "sub", "hp0", "ax">>,
           <<"a", "add", "y", "hp1">>,
           <<"ya", "sub", "y", "a">>,
           <<"da", "add", "ya", "hp1">>,
           <<"k", "int", 0>> >>,
     reduce_sincos |->
        << <<"t", "fma", "x", "hpinv", "toint">>,
           <<"xn", "sub", "t", "toint">>,
           <<"k", "quadrant", "t">>,
           <<"y1", "fnma", "xn", "mp1", "x">>,
           <<"y", "fnma", "xn", "mp2", "y1">>,
           <<"t2", "fnma", "xn", "pp3", "y">>,
           <<"yt", "sub", "y", "t2">>,
           <<"db", "fnma", "xn", "pp3", "yt">>,
           <<"a", "fnma", "xn", "pp4", "t2">>,
           <<"tb", "sub", "t2", "a">>,
           <<"db2", "fnma", "xn", "pp4", "tb">>,
           <<"da", "add", "db", "db2">> >>,
     do_sin |-> << <<"aa", "abs", "a">> >>,
     do_cos |->
        << <<"aa", "abs", "a">>,
           <<"dx", "neg_if_lt", "da", "a">>,
           <<"u", "add", "big", "aa">>,
           <<"ub", "sub", "u", "big">>,
           <<"r0", "sub", "aa", "ub">>,
           <<"r", "add", "r0", "dx">>,
           <<"xx", "mul", "r", "r">>,
           <<"ps", "fma", "xx", "sn5", "sn3">>,
           <<"r3", "mul", "r", "xx">>,
           <<"s", "fma", "r3", "ps", "r">>,
           <<"pc1", "fma", "xx", "cs6", "cs4">>,
           <<"pc", "fma", "xx", "pc1", "cs2">>,
           <<"c", "mul", "xx", "pc">>,
           <<"sn", "sn", "u">>, <<"ssn", "ssn", "u">>,
           <<"cs", "cs", "u">>, <<"ccs", "ccs", "u">>,
           <<"cor1", "fnma", "s", "ssn", "ccs">>,
           <<"cor2", "fnma", "c", "cs", "cor1">>,
           <<"cor", "fnma", "s", "sn", "cor2">>,
           <<"res", "add", "cs", "cor">> >>,
     TAYLOR_SIN |->
        << <<"xx", "mul", "a", "a">>,
           <<"p4", "fma", "xx", "s5", "s4">>,
           <<"p3", "fma", "xx", "p4", "s3">>,
           <<"p2", "fma", "xx", "p3", "s2">>,
           <<"p1", "fma", "xx", "p2", "s1">>,
           <<"hd", "mul", "da", "cs2">>,
           <<"pa", "fms", "p1", "a", "hd">>,
           <<"t", "fma", "xx", "pa", "da">>,
           <<"res", "add", "a", "t">> >>,
     sin_table |->
        << <<"dx", "neg_if_le", "da", "a">>,
           <<"u", "add", "big", "aa">>,
           <<"ub", "sub", "u", "big">>,
           <<"r", "sub", "aa", "ub">>,
           <<"xx", "mul", "r", "r">>,
           <<"ps", "fma", "xx", "sn5", "sn3">>,
           <<"r3", "mul", "r", "xx">>,
           <<"s1d", "fma", "r3", "ps", "dx">>,
           <<"s", "add", "r", "s1d">>,
           <<"pc1", "fma", "xx", "cs6", "cs4">>,
           <<"pc", "fma", "xx", "pc1", "cs2">>,
           <<"c0", "mul", "xx", "pc">>,
           <<"c", "fma", "r", "dx", "c0">>,
           <<"sn", "sn", "u">>, <<"ssn", "ssn", "u">>,
           <<"cs", "cs", "u">>, <<"ccs", "ccs", "u">>,
           <<"cor1", "fma", "s", "ccs", "ssn">>,
           <<"cor2", "fnma", "c", "sn", "cor1">>,
           <<"cor", "fma", "s", "cs", "cor2">>,
           <<"v", "add", "sn", "cor">>,
           <<"res", "copysign", "v", "a">> >>,
     negate |-> << <<"res", "neg", "res">> >>]

\* The block after a block, "done" after the last: the library's branches.
\* Arguments from 105414336 up go to another reduction (__branred), which no
\* angle of this program's data comes to.
Branch(label, env) ==
    CASE label = "cos" ->
            (CASE FLess(env["ax"], TinyLimit) -> "tiny"
               [] FGeq(env["ax"], TinyLimit) /\ FLess(env["ax"], TableLimit) -> "small"
               [] FGeq(env["ax"], TableLimit) /\ FLess(env["ax"], HalfPiLimit) ->
                     "near_half_pi"
               [] FGeq(env["ax"], HalfPiLimit) /\ FLess(env["ax"], ReduceLimit) ->
                     "reduce_sincos")
      [] label = "small" -> "do_cos"
      [] label = "near_half_pi" -> "do_sin"
      [] label = "reduce_sincos" -> IF env["k"] % 2 = 1 THEN "do_cos" ELSE "do_sin"
      [] label = "do_sin" ->
            IF FLess(env["aa"], TaylorLimit) THEN "TAYLOR_SIN" ELSE "sin_table"
      [] label \in {"do_cos", "TAYLOR_SIN", "sin_table"} ->
            IF (env["k"] \div 2) % 2 = 1 THEN "negate" ELSE "done"
      [] OTHER -> "done"

\* The result of the operation op on x, y, z.
Operation(op, x, y, z) ==
    CASE op \in {"add", "sub"} -> FAdd(x, IF op = "sub" THEN FNeg(y) ELSE y)
      [] op = "mul" -> FMul(x, y)
      [] op \in {"fma", "fnma", "fms"} ->
            FFma(IF op = "fnma" THEN FNeg(x) ELSE x, y, IF op = "fms" THEN FNeg(z) ELSE z)
      [] op = "mov" -> x
      [] op = "neg" -> FNeg(x)
      [] op = "abs" -> FAbs(x)
      [] op = "copysign" -> CopySign(x, y)
      [] op = "neg_if_lt" -> IF FLess(y, PosZero) THEN FNeg(x) ELSE x
      [] op = "neg_if_le" -> IF FLeq(y, PosZero) THEN FNeg(x) ELSE x
      [] op = "sn" -> SinCosTab[x[4] + 1][1]
      [] op = "ssn" -> SinCosTab[x[4] + 1][2]
      [] op = "cs" -> SinCosTab[x[4] + 1][3]
      [] op = "ccs" -> SinCosTab[x[4] + 1][4]
      [] op = "quadrant" -> (x[4] + 1) % 4

\* The value that the instruction ins computes from the values env.
Value(env, ins) ==
    IF ins[2] = "int" THEN ins[3]
    ELSE Operation(ins[2], env[ins[3]],
                   IF Len(ins) > 3 THEN env[ins[4]] ELSE PosZero,
                   IF Len(ins) > 4 THEN env[ins[5]] ELSE PosZero)

\* The values after the instructions at .. Len(code) of a block.
RECURSIVE Run(_, _, _)
Run(code, at, env) ==
    IF at > Len(code) THEN env
    ELSE Only({Run(code, at + 1, e) :
               e \in {[env EXCEPT ![code[at][1]] = Value(env, code[at])]}})

\* The result of the library's code from the block label on.
RECURSIVE Library(_, _)
Library(label, env) ==
    Only({Only({IF next = "done" THEN e["res"] ELSE Library(next, e) :
              next \in {Branch(label, e)}}) :
          e \in {Run(LibraryCode[label], 1, env)}})

\* np.cos(a)
Cos(a) == Only({Library("cos", env) :
                env \in {[LibraryNumbers EXCEPT !["x"] = a]}})

\* ------------------------------------------------------------------------
\* Degrees
\* ------------------------------------------------------------------------

\* math.pi
Pi == <<0, -51, 52707178, 71576856>>

\* pi / 180.0
DegToRad == FDiv(Pi, FromInt(180))

\* np.radians(x)
Radians(x) == FMul(x, DegToRad)

\* ------------------------------------------------------------------------
\* Program constants (class SolarAnalysis)
\* ------------------------------------------------------------------------

\* 29.651949 and 23.45
LATITUDE_DEGREES == FromDecimal(29651949)
EARTH_AXIAL_TILT == FromDecimal(23450000)
LATITUDE_RADIANS == Radians(LATITUDE_DEGREES)

\* adjustment = self.EARTH_AXIAL_TILT / 2 and the two tilts of arrangement 3
adjustment == FDiv(EARTH_AXIAL_TILT, FromInt(2))
summer_tilt == FSub(LATITUDE_DEGREES, adjustment)
winter_tilt == FAdd(LATITUDE_DEGREES, adjustment)

WINTER_MONTHS == <<10, 11, 12, 1, 2, 3>>
SUMMER_MONTHS == <<4, 5, 6, 7, 8, 9>>

\* list(range(1, 13))
AllMonths == [m \in 1..12 |-> m]

\* The last tilt of range(0, 91).
MaxTilt == 90

\* The doubles of the ints a tilt can be: range(0, 91) and the initial
\* best_tilt, -1.
TiltAsDouble == [t \in -1..MaxTilt |-> FromInt(t)]

\* A whole number of degrees as a tilt_degrees argument.
Deg(t) == IF t \in DOMAIN TiltAsDouble THEN TiltAsDouble[t] ELSE FromInt(t)

\* ------------------------------------------------------------------------
\* The input table and the loader
\* ------------------------------------------------------------------------

numeric_cols == {"DHI", "DNI", "ClearskyDHI", "ClearskyDNI", "DeclinationAngle", "Month"}

\* A row of the CSV file: its six cells (the declination cell as the digits
\* of a decimal with six places, the others whole numbers), and nonNumeric,
\* the columns whose text is not a number (pd.to_numeric(errors='coerce')
\* makes them NaN).
MkRow(month, dhi, dni, cdhi, cdni, decl, bad) ==
    [Month |-> month, DHI |-> dhi, DNI |-> dni, ClearskyDHI |-> cdhi,
     ClearskyDNI |-> cdni, DeclinationAngle |-> decl, nonNumeric |-> bad]

\* The rows input files are made of.
\*  RowJan, RowJun: daylight hours of a winter and a summer month;
\*  RowNov: diffuse zero with direct non-zero (cloudy), a night hour (clear);
\*  RowDec: a night hour whose sensor reads a negative offset (cloudy);
\*  RowOff: a negative reading (cloudy) and, clear, an hour whose declination
\*          cell puts the sun behind a horizontal panel;
\*  RowJun2: a second hour of June at RowJun's declination (in LongFile);
\*  RowBad: a row with a cell that is not a number;
\*  RowDecDim .. RowJunDim2: hours without diffuse light at one declination,
\*           whose direct values add up differently in different orders.
RowJan == MkRow(1, 10, 50, 12, 80, -20900000, {})
RowJun == MkRow(6, 20, 60, 15, 90, 23100000, {})
RowNov == MkRow(11, 0, 40, 0, 0, -18848051, {})
RowDec == MkRow(12, -2, 0, 4, 0, -23400000, {})
RowOff == MkRow(1, -3, 0, 3, 70, -75000000, {})
RowJun2 == MkRow(6, 5, 30, 14, 13, 23100000, {})
RowBad == MkRow(6, 0, 55, 9, 60, 23000000, {"DHI"})
RowDecDim == MkRow(12, 0, 1, 0, 1, 23100000, {})
RowJunDim == MkRow(6, 0, 2, 0, 2, 23100000, {})
RowJanLit == MkRow(1, 0, 7, 0, 7, 23100000, {})
RowDecDim2 == MkRow(12, 0, 2, 0, 2, 23100000, {})
RowJunDim2 == MkRow(6, 0, 1, 0, 1, 23100000, {})

RowPool ==
    {RowJan, RowJun, RowNov, RowDec, RowOff, RowJun2, RowBad,
     RowDecDim, RowJunDim, RowJanLit, RowDecDim2, RowJunDim2}

\* The hourly rows in file order.
RowTape == <<RowJan, RowJun, RowNov, RowDec, RowOff>>

\* The rows of tape at the positions in I, in file order.
Pick(tape, I) ==
    [k \in 1..Cardinality(I) |->
        tape[CHOOSE i \in I : Cardinality({j \in I : j <= i}) = k]]

\* An input path resolves to no file, or to a table with its column names and
\* rows. A table that lacks a required column makes the loader raise.
MissingFile == [kind |-> "missing", columns |-> {}, rows |-> <<>>]

Table(cols, rows) == [kind |-> "table", columns |-> cols, rows |-> rows]

MalformedFile == Table(numeric_cols \ {"DeclinationAngle"}, <<RowJan>>)

\* A table with a row that has a cell that is not a number.
DirtyFile == Table(numeric_cols, <<RowBad, RowJun>>)

\* A table of eight hours, one of them a night hour under a clear sky: the
\* smallest table np.sum adds in running sums.
LongFile ==
    Table(numeric_cols,
          <<RowJan, RowJun, RowNov, RowDec, RowOff, RowJun2, RowJun2, RowJan>>)

\* Tables that are not in month order.
UnsortedFile == Table(numeric_cols, <<RowDecDim, RowJunDim, RowJanLit>>)

UnsortedFile2 == Table(numeric_cols, <<RowDecDim2, RowJunDim2, RowJanLit>>)

\* The tables of at most n rows of the tape.
Tables(n) ==
    {Table(numeric_cols, Pick(RowTape, I)) :
        I \in {J \in SUBSET (1..Len(RowTape)) : Cardinality(J) <= n}}

Files ==
    {MissingFile, MalformedFile, DirtyFile, LongFile, UnsortedFile, UnsortedFile2}
        \cup Tables(MaxRows)

\* self.data: None, or the prepared DataFrame (its rows).
NoneData == [isNone |-> TRUE, rows |-> <<>>]

Frame(rows) == [isNone |-> FALSE, rows |-> rows]

\* np.radians of the declination cells of the pool's rows, computed once.
DeclinationMemo ==
    [n \in {r.DeclinationAngle : r \in RowPool} |-> Radians(FromDecimal(n))]

\* np.radians of a declination cell
DeclinationRad(n) ==
    Only({IF n \in DOMAIN memo THEN memo[n] ELSE Radians(FromDecimal(n)) :
          memo \in {DeclinationMemo}})

\* df['Declination Angle Rad'] = np.radians(df['Declination Angle'])
Prepare(row) ==
    [Month |-> row.Month, DHI |-> row.DHI, DNI |-> row.DNI,
     ClearskyDHI |-> row.ClearskyDHI, ClearskyDNI |-> row.ClearskyDNI,
     DeclinationAngle |-> row.DeclinationAngle,
     DeclinationAngleRad |-> DeclinationRad(row.DeclinationAngle)]

\* The outcome of pd.read_csv and the column loop: "FileNotFoundError",
\* "Exception" (any other fault) or "ok".
LoadOutcome(file) ==
    IF file.kind = "missing" THEN "FileNotFoundError"
    ELSE IF ~(numeric_cols \subseteq file.columns) THEN "Exception"
    ELSE "ok"

\* df.dropna(subset=numeric_cols): the rows with a NaN in a numeric column go.
DropNa(rows) == SelectSeq(rows, LAMBDA r : r.nonNumeric \cap numeric_cols = {})

\* _load_and_prepare_data
LoadAndPrepareData(file) ==
    IF LoadOutcome(file) = "ok"
    THEN Frame([i \in 1..Len(DropNa(file.rows)) |-> Prepare(DropNa(file.rows)[i])])
    ELSE NoneData

\* ------------------------------------------------------------------------
\* The GHI engine
\* ------------------------------------------------------------------------

SkyConditions == {"cloudy", "clear"}

dhi_col(sky_condition) == IF sky_condition = "cloudy" THEN "DHI" ELSE "ClearskyDHI"

dni_col(sky_condition) == IF sky_condition = "cloudy" THEN "DNI" ELSE "ClearskyDNI"

\* x in months (a list)
InList(x, months) == \E k \in 1..Len(months) : months[k] = x

\* The values s[lo] .. s[hi] added to acc from left to right, each addition
\* rounded. The range is halved, which keeps the evaluation shallow: the
\* additions still run in order.
RECURSIVE SumRange(_, _, _, _)
SumRange(s, lo, hi, acc) ==
    IF lo = hi THEN FAdd(acc, s[lo])
    ELSE Only({SumRange(s, (lo + hi) \div 2 + 1, hi, sum) :
               sum \in {SumRange(s, lo, (lo + hi) \div 2, acc)}})

\* The += loops of the program: the first n values of a list added from left
\* to right, starting from zero.
SumFirst(s, n) == IF n = 0 THEN PosZero ELSE SumRange(s, 1, n, PosZero)

\* np.sum adds a block of at least Unroll values in Unroll running sums, and
\* splits an array of more than PW_BLOCKSIZE values in two.
Unroll == 8
PW_BLOCKSIZE == 128

\* Running sum j of a block of n values: s[j], s[j + 8], s[j + 16], ... of
\* the whole groups of eight, added from left to right.
LaneSum(s, j, n) ==
    Only({IF Len(lane) = 1 THEN lane[1] ELSE SumRange(lane, 2, Len(lane), lane[1]) :
          lane \in {<<>> \o [k \in 1..(n \div Unroll) |-> s[j + Unroll * (k - 1)]]}})

\* The sum of a block of Unroll .. PW_BLOCKSIZE values: the eight running
\* sums added in pairs, then the values after the last whole group of eight
\* added from left to right.
BlockSum(s) ==
    Only({Only({IF Len(s) % Unroll = 0 THEN res
                ELSE SumRange(s, Len(s) - (Len(s) % Unroll) + 1, Len(s), res) :
              res \in {FAdd(FAdd(FAdd(r[1], r[2]), FAdd(r[3], r[4])),
                  FAdd(FAdd(r[5], r[6]), FAdd(r[7], r[8])))}}) :
          r \in {<<>> \o [j \in 1..Unroll |-> LaneSum(s, j, Len(s))]}})

\* numpy's pairwise summation of a contiguous array of doubles.
RECURSIVE PairwiseSum(_)
PairwiseSum(s) ==
    IF Len(s) < Unroll THEN SumFirst(s, Len(s))
    ELSE IF Len(s) <= PW_BLOCKSIZE THEN BlockSum(s)
    ELSE Only({Only({FAdd(left, PairwiseSum(SubSeq(s, n2 + 1, Len(s)))) :
                  left \in {PairwiseSum(SubSeq(s, 1, n2))}}) :
               n2 \in {(Len(s) \div 2) - ((Len(s) \div 2) % Unroll)}})

\* np.sum of an array of doubles: the pairwise sum added to the initial 0.
NpSum(s) == Only({FAdd(PosZero, res) : res \in {PairwiseSum(s)}})

\* self.data[self.data['Month'].isin(months)]
MonthFilter(rows, months) == SelectSeq(rows, LAMBDA r : InList(r.Month, months))

\* A filter that drops every record whose diffuse value is zero, whatever its
\* direct value.
RadiationFilterDiffuseOnly(rows, sky_condition) ==
    SelectSeq(rows, LAMBDA r : ~(r[dhi_col(sky_condition)] = 0))

\* df_period[~((df_period[dhi_col] == 0) & (df_period[dni_col] == 0))]
RadiationFilter(rows, sky_condition) ==
    SelectSeq(rows, LAMBDA r :
        ~(r[dhi_col(sky_condition)] = 0 /\ r[dni_col(sky_condition)] = 0))

\* The tilt_degrees arguments the program passes: range(0, 91), the fixed
\* tilts of arrangements 2 and 3, and the initial best_tilt.
ProgramTilts ==
    {Deg(t) : t \in -1..MaxTilt} \cup {LATITUDE_DEGREES, summer_tilt, winter_tilt}

\* theta_angle_rad = LATITUDE_RADIANS - panel_tilt_rad - declination_rad
ThetaAngleRad(declination_rad, tilt_degrees) ==
    FSub(FSub(LATITUDE_RADIANS, Radians(tilt_degrees)), declination_rad)

\* np.cos(theta_angle_rad) for the declinations of the pool's rows at the
\* program's tilts, computed once.
CosMemo ==
    [k \in {<<DeclinationRad(r.DeclinationAngle), t>> :
                r \in RowPool, t \in ProgramTilts} |->
        Cos(ThetaAngleRad(k[1], k[2]))]

\* np.cos(theta_angle_rad) for a declination and a tilt
CosOf(declination_rad, tilt_degrees) ==
    Only({IF <<declination_rad, tilt_degrees>> \in DOMAIN memo
        THEN memo[<<declination_rad, tilt_degrees>>]
        ELSE Cos(ThetaAngleRad(declination_rad, tilt_degrees)) :
          memo \in {CosMemo}})

\* cos_theta of one record
CosTheta(r, tilt_degrees) == CosOf(r.DeclinationAngleRad, tilt_degrees)

\* The direct contribution without the cos_theta > 0 condition.
DniContributionUnclamped(r, tilt_degrees, sky_condition) ==
    FMul(CosTheta(r, tilt_degrees), FromInt(r[dni_col(sky_condition)]))

\* np.where(cos_theta > 0, cos_theta * dni, 0)
DniContribution(r, tilt_degrees, sky_condition) ==
    Only({IF FGreater(cos_theta, PosZero)
        THEN FMul(cos_theta, FromInt(r[dni_col(sky_condition)]))
        ELSE PosZero :
          cos_theta \in {CosTheta(r, tilt_degrees)}})

\* ghi_output of one record: dhi + dni_contribution
GhiOutput(r, tilt_degrees, sky_condition) ==
    Only({FAdd(FromInt(r[dhi_col(sky_condition)]), dni_contribution) :
          dni_contribution \in {DniContribution(r, tilt_degrees, sky_condition)}})

\* ghi_output of the pool's rows at the program's tilts, computed once.
GhiOutputMemo ==
    [k \in {<<Prepare(r), t, sky>> :
                r \in {q \in RowPool : q.nonNumeric = {}},
                t \in ProgramTilts, sky \in SkyConditions} |->
        GhiOutput(k[1], k[2], k[3])]

\* ghi_output of one record
GhiOutputOf(r, tilt_degrees, sky_condition) ==
    Only({IF <<r, tilt_degrees, sky_condition>> \in DOMAIN memo
        THEN memo[<<r, tilt_degrees, sky_condition>>]
        ELSE GhiOutput(r, tilt_degrees, sky_condition) :
          memo \in {GhiOutputMemo}})

\* calculate_ghi_for_tilt
CalculateGhiForTilt(data, tilt_degrees, months, sky_condition) ==
    IF data.isNone THEN PosZero
    ELSE Only({IF df_period = <<>> THEN PosZero
                 ELSE Only({NpSum(ghi_output) :
                            ghi_output \in {<<>> \o [k \in 1..Len(df_period) |->
                              GhiOutputOf(df_period[k], tilt_degrees, sky_condition)]}}) :
               df_period \in {RadiationFilter(MonthFilter(data.rows, months), sky_condition)}})

\* The incumbent find_optimal_tilt starts from: max_ghi = -1, best_tilt = -1.
InitialIncumbent == <<-1, FromInt(-1)>>

\* A comparison that also replaces the incumbent on an equal GHI.
ImprovesOrTies(ghi, max_ghi) == FGeq(ghi, max_ghi)

\* if ghi > max_ghi: the candidate replaces the incumbent only on a strictly
\* greater GHI.
Improves(ghi, max_ghi) == FGreater(ghi, max_ghi)

\* The iterations of the for loop over range(0, 91) for the candidate tilts
\* lo .. hi, entered with the incumbent <<best_tilt, max_ghi>>; ghis[tilt + 1]
\* is the value of ghi in the iteration of that tilt. The range is halved,
\* which keeps the evaluation shallow: the iterations still run in order.
RECURSIVE ScanTilts(_, _, _, _)
ScanTilts(ghis, lo, hi, incumbent) ==
    IF lo = hi
    THEN (IF Improves(ghis[lo + 1], incumbent[2])
          THEN <<lo, ghis[lo + 1]>> ELSE incumbent)
    ELSE Only({ScanTilts(ghis, (lo + hi) \div 2 + 1, hi, best) :
               best \in {ScanTilts(ghis, lo, (lo + hi) \div 2, incumbent)}})

\* find_optimal_tilt: <<best_tilt, max_ghi>>. ghis is bound to the list of
\* the values calculate_ghi_for_tilt returns for tilt = 0, 1, ..., 90.
FindOptimalTilt(data, months, sky_condition) ==
    CHOOSE result \in
        {ScanTilts(ghis, 0, MaxTilt, InitialIncumbent) :
            ghis \in {<<>> \o [k \in 1..(MaxTilt + 1) |->
                        CalculateGhiForTilt(data, Deg(k - 1), months, sky_condition)]}} :
        TRUE

\* ------------------------------------------------------------------------
\* Arrangements
\* ------------------------------------------------------------------------

AnalyzeArrangement1(data, sky_condition) ==
    CalculateGhiForTilt(data, Deg(0), AllMonths, sky_condition)

AnalyzeArrangement2(data, sky_condition) ==
    CalculateGhiForTilt(data, LATITUDE_DEGREES, AllMonths, sky_condition)

AnalyzeArrangement3(data, sky_condition) ==
    FAdd(CalculateGhiForTilt(data, summer_tilt, SUMMER_MONTHS, sky_condition),
         CalculateGhiForTilt(data, winter_tilt, WINTER_MONTHS, sky_condition))

\* total_ghi = 0, then total_ghi += max_ghi for month in range(1, 13);
\* max_ghis is bound to the list of the twelve values of max_ghi.
AnalyzeArrangement4(data, sky_condition) ==
    CHOOSE total_ghi \in
        {SumFirst(max_ghis, 12) :
            max_ghis \in {<<>> \o [month \in 1..12 |->
                            FindOptimalTilt(data, <<month>>, sky_condition)[2]]}} :
        TRUE

AnalyzeArrangement5(data, sky_condition) ==
    FAdd(FindOptimalTilt(data, SUMMER_MONTHS, sky_condition)[2],
         FindOptimalTilt(data, WINTER_MONTHS, sky_condition)[2])

AnalyzeArrangement6(data, sky_condition) ==
    FindOptimalTilt(data, AllMonths, sky_condition)[2]

AnalyzeArrangement(n, data, sky_condition) ==
    CASE n = 1 -> AnalyzeArrangement1(data, sky_condition)
      [] n = 2 -> AnalyzeArrangement2(data, sky_condition)
      [] n = 3 -> AnalyzeArrangement3(data, sky_condition)
      [] n = 4 -> AnalyzeArrangement4(data, sky_condition)
      [] n = 5 -> AnalyzeArrangement5(data, sky_condition)
      [] OTHER -> AnalyzeArrangement6(data, sky_condition)

\* ------------------------------------------------------------------------
\* Sliding window
\* ------------------------------------------------------------------------

month_names ==
    <<"Jan", "Feb", "Mar", "Apr", "May", "Jun",
      "Jul", "Aug", "Sep", "Oct", "Nov", "Dec">>

\* A wrap without the shift to zero-based months.
WrapMonthOffByOne(m) == (m % 12) + 1

\* (m - 1) % 12 + 1
WrapMonth(m) == ((m - 1) % 12) + 1

\* [(m - 1) % 12 + 1 for m in range(i, i + window_size)]
MonthsInWindow(i, window_size) ==
    [k \in 1..window_size |-> WrapMonth(i + k - 1)]

\* f"{start_month_name}-{end_month_name}"
WindowName(months_in_window) ==
    month_names[months_in_window[1]] \o "-"
      \o month_names[months_in_window[Len(months_in_window)]]

\* A row whose tilt is optimal for the first month of the window only.
WindowResultFirstMonth(data, i, window_size, sky_condition) ==
    LET months_in_window == MonthsInWindow(i, window_size)
    IN  [Window |-> WindowName(months_in_window),
         OptimalTilt |->
            FindOptimalTilt(data, <<months_in_window[1]>>, sky_condition)[1]]

\* The row appended for window i: its name and the best_tilt of one
\* find_optimal_tilt call.
WindowResult(data, i, window_size, sky_condition) ==
    LET months_in_window == MonthsInWindow(i, window_size)
    IN  [Window |-> WindowName(months_in_window),
         OptimalTilt |-> FindOptimalTilt(data, months_in_window, sky_condition)[1]]

\* analyze_sliding_window, for a window_size >= 1: the rows of the DataFrame.
AnalyzeSlidingWindow(data, window_size, sky_condition) ==
    [i \in 1..12 |-> WindowResult(data, i, window_size, sky_condition)]

\* ------------------------------------------------------------------------
\* Monthly GHI table (generate_visualizations.py)
\* ------------------------------------------------------------------------

\* The tilts get_monthly_ghi_data takes from find_optimal_tilt, in whole
\* degrees: monthly_tilts_arr4, opt_tilt_summer, opt_tilt_winter and
\* opt_tilt_annual.
ArrangementTilts(data, sky_condition) ==
    [monthly_tilts_arr4 |->
        <<>> \o [m \in 1..12 |-> FindOptimalTilt(data, <<m>>, sky_condition)[1]],
     opt_tilt_summer |-> FindOptimalTilt(data, SUMMER_MONTHS, sky_condition)[1],
     opt_tilt_winter |-> FindOptimalTilt(data, WINTER_MONTHS, sky_condition)[1],
     opt_tilt_annual |-> FindOptimalTilt(data, AllMonths, sky_condition)[1]]

\* opt_tilt_summer if m in analyzer.SUMMER_MONTHS else opt_tilt_winter
MonthlyTiltArr5(tilts, m) ==
    IF InList(m, SUMMER_MONTHS) THEN tilts.opt_tilt_summer ELSE tilts.opt_tilt_winter

\* tilt_arr3 of a month
TiltArr3(month_num) ==
    IF InList(month_num, SUMMER_MONTHS) THEN summer_tilt ELSE winter_tilt

\* The row of one month: the GHI of the month at the tilt of each of the
\* arrangements 1..6.
MonthlyRow(data, tilts, month_num, sky_condition) ==
    <<CalculateGhiForTilt(data, Deg(0), <<month_num>>, sky_condition),
      CalculateGhiForTilt(data, LATITUDE_DEGREES, <<month_num>>, sky_condition),
      CalculateGhiForTilt(data, TiltArr3(month_num), <<month_num>>, sky_condition),
      CalculateGhiForTilt(data, Deg(tilts.monthly_tilts_arr4[month_num]),
                          <<month_num>>, sky_condition),
      CalculateGhiForTilt(data, Deg(MonthlyTiltArr5(tilts, month_num)),
                          <<month_num>>, sky_condition),
      CalculateGhiForTilt(data, Deg(tilts.opt_tilt_annual), <<month_num>>, sky_condition)>>

\* get_monthly_ghi_data: the rows of the DataFrame, January to December.
GetMonthlyGhiData(data, sky_condition) ==
    CHOOSE table \in
        {<<>> \o [month_num \in 1..12 |-> MonthlyRow(data, tilts, month_num, sky_condition)] :
            tilts \in {ArrangementTilts(data, sky_condition)}} :
        TRUE

\* ------------------------------------------------------------------------
\* State
\* ------------------------------------------------------------------------

VARIABLES
    file,       \* the input the analyzer was constructed on
    data,       \* self.data
    pc,         \* "idle", "window" (in the loop of analyze_sliding_window),
                \* "returned" or "raised"
    call,       \* the engine call in progress or just ended
    ret,        \* what the call returned
    i,          \* the loop variable of analyze_sliding_window
    results,    \* its results list
    find_calls, \* find_optimal_tilt calls it has made
    completed,  \* the calls the analyzer has completed since construction
    main_pc,    \* the position of the main script
    analyzers,  \* year -> the data of the analyzer constructed for it
    out         \* what the main script has printed and plotted, in order

engine_vars == <<file, data, pc, call, ret, i, results, find_calls, completed>>

main_vars == <<main_pc, analyzers, out>>

vars ==
    <<file, data, pc, call, ret, i, results, find_calls, completed,
      main_pc, analyzers, out>>

Call(op, tilt, months, sky_condition, n) ==
    [op |-> op, tilt |-> tilt, months |-> months, sky |-> sky_condition, n |-> n]

NoCall == Call("none", 0, <<>>, "cloudy", 0)

\* The month lists given to calculate_ghi_for_tilt and find_optimal_tilt: the
\* months the tape has rows of and one it has none of, the seasons, the year,
\* a month no calendar has, a list that repeats a month and a window across
\* the year's end.
MonthLists ==
    {<<m>> : m \in {1, 2, 6, 11, 12, 13}}
      \cup {SUMMER_MONTHS, WINTER_MONTHS, AllMonths, <<1, 1>>, <<11, 12, 1>>}

\* The tilt_degrees given to calculate_ghi_for_tilt: the ends of the search
\* range, tilts where the pool's rows peak or tie, and the fixed tilts of
\* arrangements 2 and 3.
TiltArgs ==
    {Deg(t) : t \in {0, 7, 48, 49, MaxTilt}} \cup {LATITUDE_DEGREES, summer_tilt, winter_tilt}

WindowSizes == (0..MaxWindow) \cup {12 + 1}

\* A filter assigned back to self.data.
FilterInPlace(d, months, sky_condition) ==
    IF d.isNone THEN d
    ELSE Frame(RadiationFilter(MonthFilter(d.rows, months), sky_condition))

\* What the engine's methods do to self.data: calculate_ghi_for_tilt works on
\* a filtered copy (df_period) and assigns nothing to self.data; every other
\* method reaches the data only through it.
DataAfterCalculate(d, months, sky_condition) == d

EngineIdle ==
    /\ pc = "idle"
    /\ call = NoCall
    /\ ret = 0
    /\ i = 0
    /\ results = <<>>
    /\ find_calls = 0
    /\ completed = 0

MainIdle ==
    /\ main_pc = "start"
    /\ analyzers = <<>>
    /\ out = <<>>

\* The analyzer after SolarAnalysis(csv_file_path).
Init ==
    /\ file \in Files
    /\ data = LoadAndPrepareData(file)
    /\ EngineIdle
    /\ MainIdle

\* ------------------------------------------------------------------------
\* Engine calls
\* ------------------------------------------------------------------------

Calculate(tilt_degrees, months, sky_condition) ==
    /\ pc = "idle"
    /\ completed < MaxCalls
    /\ call' = Call("calculate_ghi_for_tilt", tilt_degrees, months, sky_condition, 0)
    /\ ret' = CalculateGhiForTilt(data, tilt_degrees, months, sky_condition)
    /\ data' = DataAfterCalculate(data, months, sky_condition)
    /\ pc' = "returned"
    /\ UNCHANGED <<file, i, results, find_calls, completed, main_vars>>

FindOptimal(months, sky_condition) ==
    /\ pc = "idle"
    /\ completed < MaxCalls
    /\ call' = Call("find_optimal_tilt", 0, months, sky_condition, 0)
    /\ ret' = FindOptimalTilt(data, months, sky_condition)
    /\ data' = DataAfterCalculate(data, months, sky_condition)
    /\ pc' = "returned"
    /\ UNCHANGED <<file, i, results, find_calls, completed, main_vars>>

Arrangement(n, sky_condition) ==
    /\ pc = "idle"
    /\ completed < MaxCalls
    /\ call' = Call("analyze_arrangement", 0, <<>>, sky_condition, n)
    /\ ret' = AnalyzeArrangement(n, data, sky_condition)
    /\ data' = DataAfterCalculate(data, AllMonths, sky_condition)
    /\ pc' = "returned"
    /\ UNCHANGED <<file, i, results, find_calls, completed, main_vars>>

\* get_monthly_ghi_data(analyzer, sky_condition)
MonthlyGhiData(sky_condition) ==
    /\ pc = "idle"
    /\ completed < MaxCalls
    /\ call' = Call("get_monthly_ghi_data", 0, <<>>, sky_condition, 0)
    /\ \E monthly_ghi_df \in {GetMonthlyGhiData(data, sky_condition)} : ret' = monthly_ghi_df
    /\ data' = DataAfterCalculate(data, AllMonths, sky_condition)
    /\ pc' = "returned"
    /\ UNCHANGED <<file, i, results, find_calls, completed, main_vars>>

\* analyze_sliding_window is entered: results = [], the loop starts at 1.
SlidingWindowCall(window_size, sky_condition) ==
    /\ pc = "idle"
    /\ completed < MaxCalls
    /\ call' = Call("analyze_sliding_window", 0, <<>>, sky_condition, window_size)
    /\ pc' = "window"
    /\ i' = 1
    /\ results' = <<>>
    /\ find_calls' = 0
    /\ UNCHANGED <<file, data, ret, completed, main_vars>>

\* One iteration of its loop. With no month in the window, months_in_window[0]
\* raises IndexError and the call ends without a result.
SlidingWindowStep ==
    /\ pc = "window"
    /\ i <= 12
    /\ IF MonthsInWindow(i, call.n) = <<>>
       THEN /\ pc' = "raised"
            /\ UNCHANGED <<data, i, results, find_calls>>
       ELSE /\ results' = Append(results, WindowResult(data, i, call.n, call.sky))
            /\ find_calls' = find_calls + 1
            /\ data' = DataAfterCalculate(data, MonthsInWindow(i, call.n), call.sky)
            /\ i' = i + 1
            /\ pc' = pc
    /\ UNCHANGED <<file, call, ret, completed, main_vars>>

\* return pd.DataFrame(results)
SlidingWindowReturn ==
    /\ pc = "window"
    /\ i > 12
    /\ ret' = results
    /\ pc' = "returned"
    /\ UNCHANGED <<file, data, call, i, results, find_calls, completed, main_vars>>

\* The caller has the result (or the exception); the analyzer takes the next call.
Return ==
    /\ pc \in {"returned", "raised"}
    /\ pc' = "idle"
    /\ call' = NoCall
    /\ ret' = 0
    /\ i' = 0
    /\ results' = <<>>
    /\ find_calls' = 0
    /\ completed' = completed + 1
    /\ UNCHANGED <<file, data, main_vars>>

Next ==
    \/ \E t \in TiltArgs, months \in MonthLists, sky \in SkyConditions :
          Calculate(t, months, sky)
    \/ \E months \in MonthLists, sky \in SkyConditions : FindOptimal(months, sky)
    \/ \E n \in 1..6, sky \in SkyConditions : Arrangement(n, sky)
    \/ \E w \in WindowSizes, sky \in SkyConditions : SlidingWindowCall(w, sky)
    \/ SlidingWindowStep
    \/ SlidingWindowReturn
    \/ Return

Spec == Init /\ [][Next]_vars

\* The analyzer as generate_visualizations.py uses it: get_monthly_ghi_data
\* and the calculate_ghi_for_tilt calls its table is made of.
MonthlyNext ==
    \/ \E t \in TiltArgs, months \in MonthLists, sky \in SkyConditions :
          Calculate(t, months, sky)
    \/ \E sky \in SkyConditions : MonthlyGhiData(sky)
    \/ Return

MonthlySpec == Init /\ [][MonthlyNext]_vars

\* ------------------------------------------------------------------------
\* The main script (if __name__ == "__main__")
\* ------------------------------------------------------------------------

YEAR_TO_ANALYZE == 2023
YEAR_TO_ANALYZE_2 == 2022

MainFiles == {MissingFile, MalformedFile, DirtyFile} \cup Tables(MaxMainRows)

\* Something printed or plotted: its kind, the years whose analyzer it was
\* computed from (or whose load it reports), and its content.
Event(kind, years, content) == [kind |-> kind, years |-> years, content |-> content]

\* The kinds that show results of an analysis.
AnalysisKinds == {"arrangement_table", "arrangement_plot", "sliding_table", "sliding_plot"}

\* What the except clauses of _load_and_prepare_data print for a file.
LoadReport(year, f) ==
    IF LoadOutcome(f) = "ok" THEN <<>>
    ELSE <<Event("load_error", {year}, LoadOutcome(f))>>

\* A guard that lets every analyzer through.
AlwaysRun(d) == TRUE

\* if analyzer.data is not None
DataIsNotNone(d) == ~d.isNone

\* results[name] = {'Cloudy Sky GHI': func('cloudy'), 'Clear Sky GHI': func('clear')}
ArrangementResults(d) ==
    [n \in 1..6 |-> [sky_condition \in SkyConditions |->
                        AnalyzeArrangement(n, d, sky_condition)]]

\* The whole number nearest to |x|, ties to even, for |x| < 2^31.
RoundHalfEven(x) ==
    IF IsZero(x) THEN 0
    ELSE Only({Only({IF t[2] % 8 > 4 \/ (t[2] % 8 = 4 /\ q % 2 = 1) THEN q + 1 ELSE q :
                  q \in {t[1] * 2^27 + t[2] \div 8}}) :
               t \in {ShiftRightJam(x[3], x[4] * 8, -x[2])}})

\* The three digits of a group after the first.
GroupOfThree(k) ==
    IF k < 10 THEN "00" \o ToString(k)
    ELSE IF k < 100 THEN "0" \o ToString(k)
    ELSE ToString(k)

\* The digits of n >= 0 with a comma between groups of three.
RECURSIVE Grouped(_)
Grouped(n) ==
    IF n < 1000 THEN ToString(n)
    ELSE Grouped(n \div 1000) \o "," \o GroupOfThree(n % 1000)

\* '{:,.0f}'.format(x): no decimals, thousands separated, the sign of a
\* negative x kept also when it rounds to zero.
Format0f(x) ==
    IF x[1] = 1 THEN "-" \o Grouped(RoundHalfEven(x)) ELSE Grouped(RoundHalfEven(x))

\* results_df_2023 after both columns are mapped through '{:,.0f}'.format
FormattedResults(res) ==
    [n \in DOMAIN res |-> [sky_condition \in DOMAIN res[n] |->
                              Format0f(res[n][sky_condition])]]

\* The window size of the script's sliding window analyses.
ScriptWindow == 3

\* analyzer_2023 = SolarAnalysis(FILE_PATH)
MainLoad2023 ==
    /\ main_pc = "start"
    /\ \E f \in MainFiles :
          /\ analyzers' = (YEAR_TO_ANALYZE :> LoadAndPrepareData(f))
          /\ out' = out \o LoadReport(YEAR_TO_ANALYZE, f)
    /\ main_pc' = "loaded_2023"
    /\ UNCHANGED engine_vars

\* if analyzer_2023.data is not None: ... else: print("Could not run ...")
MainCheck2023 ==
    /\ main_pc = "loaded_2023"
    /\ IF DataIsNotNone(analyzers[YEAR_TO_ANALYZE])
       THEN /\ main_pc' = "arrangements"
            /\ out' = out
       ELSE /\ main_pc' = "done"
            /\ out' = Append(out, Event("could_not_run", {YEAR_TO_ANALYZE}, "exit"))
    /\ UNCHANGED <<analyzers, engine_vars>>

\* 1. all arrangement analyses and their table, printed with formatted
\* cells; 2. plot_arrangement_comparison, given the unformatted results
MainArrangements ==
    /\ main_pc = "arrangements"
    /\ \E results_2023 \in {ArrangementResults(analyzers[YEAR_TO_ANALYZE])} :
          out' = out \o <<Event("arrangement_table", {YEAR_TO_ANALYZE},
                                FormattedResults(results_2023)),
                          Event("arrangement_plot", {YEAR_TO_ANALYZE}, results_2023)>>
    /\ main_pc' = "sliding_2023"
    /\ UNCHANGED <<analyzers, engine_vars>>

\* 3. the sliding window analysis of 2023, printed
MainSliding2023 ==
    /\ main_pc = "sliding_2023"
    /\ \E sliding_window_cloudy_2023 \in
             {AnalyzeSlidingWindow(analyzers[YEAR_TO_ANALYZE], ScriptWindow, "cloudy")} :
          out' = Append(out, Event("sliding_table", {YEAR_TO_ANALYZE},
                                   sliding_window_cloudy_2023))
    /\ main_pc' = "load_2022"
    /\ UNCHANGED <<analyzers, engine_vars>>

\* analyzer_2022 = SolarAnalysis(FILE_PATH_2)
MainLoad2022 ==
    /\ main_pc = "load_2022"
    /\ \E f \in MainFiles :
          /\ analyzers' = analyzers @@ (YEAR_TO_ANALYZE_2 :> LoadAndPrepareData(f))
          /\ out' = out \o LoadReport(YEAR_TO_ANALYZE_2, f)
    /\ main_pc' = "loaded_2022"
    /\ UNCHANGED engine_vars

\* if analyzer_2022.data is not None: the 2022 table and 4. the comparison
\* plot of both years; else: print("Could not run ...")
MainCheck2022 ==
    /\ main_pc = "loaded_2022"
    /\ IF DataIsNotNone(analyzers[YEAR_TO_ANALYZE_2])
       THEN \E sliding_window_cloudy_2022 \in
                 {AnalyzeSlidingWindow(analyzers[YEAR_TO_ANALYZE_2], ScriptWindow, "cloudy")},
               sliding_window_cloudy_2023 \in {out[Len(out)].content} :
               out' = out \o
                  <<Event("sliding_table", {YEAR_TO_ANALYZE_2}, sliding_window_cloudy_2022),
                    Event("sliding_plot", {YEAR_TO_ANALYZE_2, YEAR_TO_ANALYZE},
                          <<sliding_window_cloudy_2022, sliding_window_cloudy_2023>>)>>
       ELSE out' = Append(out, Event("could_not_run", {YEAR_TO_ANALYZE_2}, "continue"))
    /\ main_pc' = "paragraph"
    /\ UNCHANGED <<analyzers, engine_vars>>

\* 5. print_declination_paragraph()
MainParagraph ==
    /\ main_pc = "paragraph"
    /\ out' = Append(out, Event("declination_paragraph", {}, ""))
    /\ main_pc' = "done"
    /\ UNCHANGED <<analyzers, engine_vars>>

\* The script has not started; no analyzer of the engine's own is in use.
MainInit ==
    /\ file = MissingFile
    /\ data = NoneData
    /\ EngineIdle
    /\ MainIdle

MainNext ==
    \/ MainLoad2023
    \/ MainCheck2023
    \/ MainArrangements
    \/ MainSliding2023
    \/ MainLoad2022
    \/ MainCheck2022
    \/ MainParagraph

MainSpec == MainInit /\ [][MainNext]_vars

\* ------------------------------------------------------------------------
\* Properties
\* ------------------------------------------------------------------------

\* The engine call op has returned.
Returned(op) == pc = "returned" /\ call.op = op

\* The GHI of the candidate tilts 0, 1, ..., 90 on d, in this order.
CandidateGhis(d, months, sky_condition) ==
    <<>> \o [k \in 1..(MaxTilt + 1) |->
                CalculateGhiForTilt(d, Deg(k - 1), months, sky_condition)]

\* Record r is of one of the months.
InMonths(r, months) == \E k \in 1..Len(months) : months[k] = r.Month

\* The columns the sky condition selects.
Diffuse(r, sky_condition) == IF sky_condition = "cloudy" THEN r.DHI ELSE r.ClearskyDHI

Direct(r, sky_condition) == IF sky_condition = "cloudy" THEN r.DNI ELSE r.ClearskyDNI

\* cos(latitude - tilt - the record's own declination)
CosIncidence(r, tilt_degrees) ==
    CosOf(DeclinationRad(r.DeclinationAngle), tilt_degrees)

\* Some record of d is of one of the months.
HasRecordOf(d, months) ==
    ~d.isNone /\ \E k \in 1..Len(d.rows) : InMonths(d.rows[k], months)

\* C1: find_optimal_tilt returns the smallest of the tilts 0..90 whose GHI
\* equals the maximum over the 91 candidates: no candidate has a greater GHI
\* than the returned tilt, and no lower tilt has an equal one.
C1_SmallestTiltOfMaximum ==
    Returned("find_optimal_tilt") =>
        \E ghis \in {CandidateGhis(data, call.months, call.sky)} :
            /\ ret[1] \in 0..MaxTilt
            /\ \A k \in 1..Len(ghis) : FLeq(ghis[k], ghis[ret[1] + 1])
            /\ \A k \in 1..ret[1] : FLess(ghis[k], ghis[ret[1] + 1])

\* find_optimal_tilt has returned a tilt that is no candidate, on a period
\* whose GHI is the same at every tilt, so that tilt 0 is the smallest tilt
\* of the maximum.
C1_NoCandidateReturned ==
    /\ Returned("find_optimal_tilt")
    /\ HasRecordOf(data, call.months)
    /\ \E ghis \in {CandidateGhis(data, call.months, call.sky)} :
          \A k \in 1..Len(ghis) : FEq(ghis[k], ghis[1])
    /\ ret[1] # 0

\* C2: the incumbent find_optimal_tilt starts from is below every attainable
\* GHI: the returned best_tilt is one of 0..90, the returned max_ghi is the
\* GHI of that tilt and is at least the GHI of every candidate, and the
\* initial pair (-1, -1) is never returned.
C2_IncumbentBelowEveryGhi ==
    Returned("find_optimal_tilt") =>
        \E ghis \in {CandidateGhis(data, call.months, call.sky)} :
            /\ ret[1] \in 0..MaxTilt
            /\ FEq(ret[2], ghis[ret[1] + 1])
            /\ \A k \in 1..Len(ghis) : FGeq(ret[2], ghis[k])
            /\ ~(ret[1] = -1 /\ FEq(ret[2], FromInt(-1)))

\* find_optimal_tilt has returned its initial pair on a dataset whose GHI is
\* below -1 at every tilt.
C2_InitialPairReturned ==
    /\ Returned("find_optimal_tilt")
    /\ ret[1] = -1
    /\ FEq(ret[2], FromInt(-1))
    /\ \E ghis \in {CandidateGhis(data, call.months, call.sky)} :
          \A k \in 1..Len(ghis) : FLess(ghis[k], FromInt(-1))

\* No record of d qualifies for the months and the sky condition: each is of
\* another month or has both irradiance values zero.
NoRecordQualifies(d, months, sky_condition) ==
    d.isNone \/
    \A k \in 1..Len(d.rows) :
        \/ ~InMonths(d.rows[k], months)
        \/ (Diffuse(d.rows[k], sky_condition) = 0 /\ Direct(d.rows[k], sky_condition) = 0)

\* C3: when no record qualifies for the months and the sky condition,
\* calculate_ghi_for_tilt returns 0.0 at every tilt and find_optimal_tilt
\* returns tilt 0 with GHI 0.0.
C3_EmptyPeriod ==
    (pc = "returned" /\ NoRecordQualifies(data, call.months, call.sky)) =>
        /\ call.op = "calculate_ghi_for_tilt" => FEq(ret, PosZero)
        /\ call.op = "find_optimal_tilt" =>
              /\ ret[1] = 0
              /\ FEq(ret[2], PosZero)
              /\ \E ghis \in {CandidateGhis(data, call.months, call.sky)} :
                    \A k \in 1..Len(ghis) : FEq(ghis[k], PosZero)

\* find_optimal_tilt has returned on a period whose only records are
\* zero-radiation hours.
C3_OnlyZeroRadiationHours ==
    /\ Returned("find_optimal_tilt")
    /\ HasRecordOf(data, call.months)
    /\ NoRecordQualifies(data, call.months, call.sky)
    /\ ret[1] = 0
    /\ FEq(ret[2], PosZero)

\* Diffuse plus direct contribution of one record, the direct contribution
\* being cos(theta) * direct when cos(theta) > 0 and 0 otherwise, in doubles.
RecordGhi(r, tilt_degrees, sky_condition) ==
    Only({FAdd(FromInt(Diffuse(r, sky_condition)),
             IF FGreater(c, PosZero) THEN FMul(c, FromInt(Direct(r, sky_condition)))
             ELSE PosZero) :
          c \in {CosIncidence(r, tilt_degrees)}})

\* The records of d whose month is one of the months, in file order.
MonthRecords(d, months) == SelectSeq(d.rows, LAMBDA r : InMonths(r, months))

\* Record r has no irradiance: its diffuse and direct values are both zero.
NoIrradiance(r, sky_condition) ==
    Diffuse(r, sky_condition) = 0 /\ Direct(r, sky_condition) = 0

\* The sum of RecordGhi over the records of the months, as np.sum adds the
\* terms of the records that have irradiance (the terms of the others are
\* 0.0).
SumOverMonths(d, tilt_degrees, months, sky_condition) ==
    IF d.isNone THEN PosZero
    ELSE Only({NpSum(<<>> \o [k \in 1..Len(recs) |->
                                  RecordGhi(recs[k], tilt_degrees, sky_condition)]) :
               recs \in {SelectSeq(MonthRecords(d, months),
                        LAMBDA r : ~NoIrradiance(r, sky_condition))}})

\* The np.sum of RecordGhi over all records of the months.
SumOverAllMonthRecords(d, tilt_degrees, months, sky_condition) ==
    IF d.isNone THEN PosZero
    ELSE Only({NpSum(<<>> \o [k \in 1..Len(recs) |->
                             RecordGhi(recs[k], tilt_degrees, sky_condition)]) :
               recs \in {MonthRecords(d, months)}})

\* The sum of the diffuse values of the records of the months.
DiffuseOverMonths(d, months, sky_condition) ==
    IF d.isNone THEN PosZero
    ELSE Only({NpSum(<<>> \o [k \in 1..Len(recs) |->
                             FromInt(Diffuse(recs[k], sky_condition))]) :
               recs \in {MonthRecords(d, months)}})

\* At tilt 0 the sun is behind the panel in every included hour of d.
SunBehindAtZeroTilt(d, months) ==
    \A k \in 1..Len(d.rows) :
        InMonths(d.rows[k], months) => FLeq(CosIncidence(d.rows[k], Deg(0)), PosZero)

UnconditionalSum(d, tilt_degrees, months, sky_condition) ==
    IF d.isNone THEN PosZero
    ELSE Only({NpSum(<<>> \o [k \in 1..Len(df_month) |->
                             GhiOutputOf(df_month[k], tilt_degrees, sky_condition)]) :
               df_month \in {MonthFilter(d.rows, months)}})

\* Record r is one of the records calculate_ghi_for_tilt sums.
Counted(d, r, months, sky_condition) ==
    \E k \in 1..Len(RadiationFilter(MonthFilter(d.rows, months), sky_condition)) :
        RadiationFilter(MonthFilter(d.rows, months), sky_condition)[k] = r

\* Every record of the months with diffuse 0 and direct non-zero is counted.
ZeroDiffuseKept(d, months, sky_condition) ==
    \A k \in 1..Len(d.rows) :
        (/\ InMonths(d.rows[k], months)
         /\ Diffuse(d.rows[k], sky_condition) = 0
         /\ Direct(d.rows[k], sky_condition) # 0)
            => Counted(d, d.rows[k], months, sky_condition)

\* C5 as stated: excluding the records whose diffuse and direct values are
\* both zero never changes the result: for every dataset
\* calculate_ghi_for_tilt equals the sum over all records of the months, and
\* a record with diffuse 0 and direct non-zero is kept and counted.
C5_ExclusionChangesNothing ==
    Returned("calculate_ghi_for_tilt") =>
        /\ FEq(ret, UnconditionalSum(data, call.tilt, call.months, call.sky))
        /\ ZeroDiffuseKept(data, call.months, call.sky)

\* C5, amended: every record whose diffuse and direct values are both zero
\* has the term 0.0, and a record with diffuse 0 and direct non-zero is kept
\* and counted; when fewer than 8 records are of the months,
\* calculate_ghi_for_tilt equals the sum over all records of the months.
C5_ExclusionBelowEightRecords ==
    Returned("calculate_ghi_for_tilt") =>
        /\ \A k \in 1..Len(data.rows) :
              (InMonths(data.rows[k], call.months) /\ NoIrradiance(data.rows[k], call.sky))
                  => FEq(GhiOutputOf(data.rows[k], call.tilt, call.sky), PosZero)
        /\ ZeroDiffuseKept(data, call.months, call.sky)
        /\ Len(MonthFilter(data.rows, call.months)) < Unroll =>
              FEq(ret, UnconditionalSum(data, call.tilt, call.months, call.sky))

\* calculate_ghi_for_tilt has returned the sum of a period of fewer than 8
\* records, one of them without irradiance and excluded.
C5_ZeroRecordExcluded ==
    /\ Returned("calculate_ghi_for_tilt")
    /\ Len(MonthFilter(data.rows, call.months)) < Unroll
    /\ \E k \in 1..Len(data.rows) :
          /\ InMonths(data.rows[k], call.months)
          /\ NoIrradiance(data.rows[k], call.sky)
    /\ Len(RadiationFilter(MonthFilter(data.rows, call.months), call.sky)) >= 2
    /\ FGreater(ret, PosZero)
    /\ FEq(ret, UnconditionalSum(data, call.tilt, call.months, call.sky))

\* C6: the total of arrangement 4 is at least the total of arrangement 6.
C6_MonthlyAtLeastAnnual ==
    (Returned("analyze_arrangement") /\ call.n = 4) =>
        FGeq(ret, AnalyzeArrangement6(data, call.sky))

\* analyze_arrangement_4 has returned less than analyze_arrangement_6 returns.
C6_MonthlyBelowAnnual ==
    /\ Returned("analyze_arrangement")
    /\ call.n = 4
    /\ FLess(ret, AnalyzeArrangement6(data, call.sky))

\* Month k (k = 0, 1, ...) of the window that starts at month j.
MonthOfWindow(j, k) == ((j + k - 1) % 12) + 1

\* The short names of the months.
ShortName ==
    <<"Jan", "Feb", "Mar", "Apr", "May", "Jun",
      "Jul", "Aug", "Sep", "Oct", "Nov", "Dec">>

\* The label of the window of w months that starts at month j.
LabelOfWindow(j, w) ==
    ShortName[MonthOfWindow(j, 0)] \o "-" \o ShortName[MonthOfWindow(j, w - 1)]

\* C7: with window size W >= 1 the window that starts at month i covers
\* exactly the months ((i + k - 1) mod 12) + 1 for k = 0..W-1 and is labelled
\* with the short names of its first and last month; for W = 3 and start
\* month 11 the months are 11, 12, 1 and the label is "Nov-Jan".
C7_WindowMonthsAndLabel ==
    (call.op = "analyze_sliding_window" /\ call.n >= 1 /\ pc = "window") =>
        \A j \in 1..Len(results) :
            /\ MonthsInWindow(j, call.n) = [k \in 1..call.n |-> MonthOfWindow(j, k - 1)]
            /\ results[j].Window = LabelOfWindow(j, call.n)
            /\ (call.n = 3 /\ j = 11) =>
                  /\ MonthsInWindow(j, call.n) = <<11, 12, 1>>
                  /\ results[j].Window = "Nov-Jan"

\* The loop of analyze_sliding_window with window size 3 has recorded the
\* window that starts in November.
C7_NovemberWindow ==
    /\ call.op = "analyze_sliding_window"
    /\ pc = "window"
    /\ call.n = 3
    /\ Len(results) = 11
    /\ results[11].Window = "Nov-Jan"

\* The result is 12 pairs in the order of the start months 1..12, each with
\* the label of its window and the best_tilt of the one find_optimal_tilt
\* call on its months.
TwelveOrderedPairs ==
    /\ Len(ret) = 12
    /\ find_calls = 12
    /\ \A j \in 1..12 :
          /\ ret[j].Window = LabelOfWindow(j, call.n)
          /\ ret[j].OptimalTilt =
                FindOptimalTilt(data, [k \in 1..call.n |-> MonthOfWindow(j, k - 1)],
                                call.sky)[1]

\* C8 as stated: analyze_sliding_window returns exactly 12 (label, tilt)
\* pairs in the order of the start months, each tilt the best_tilt of one
\* find_optimal_tilt call on the window's months, whatever the window size.
C8_TwelvePairsAnyWindow ==
    (call.op = "analyze_sliding_window" /\ pc \in {"returned", "raised"}) =>
        /\ pc = "returned"
        /\ TwelveOrderedPairs

\* C8, amended: with window size W >= 1 analyze_sliding_window raises nothing,
\* makes one find_optimal_tilt call per recorded window, and returns exactly
\* 12 (label, tilt) pairs in the order of the start months 1..12, each tilt
\* the best_tilt of the find_optimal_tilt call on its window's months.
C8_TwelvePairsPositiveWindow ==
    (call.op = "analyze_sliding_window" /\ call.n >= 1) =>
        /\ pc # "raised"
        /\ pc = "window" => (find_calls = Len(results) /\ Len(results) = i - 1)
        /\ pc = "returned" => TwelveOrderedPairs

\* analyze_sliding_window has returned the 12 pairs of a window of three
\* months on a dataset whose windows differ in their best tilt.
C8_TwelvePairsReturned ==
    /\ Returned("analyze_sliding_window")
    /\ call.n = 3
    /\ Len(ret) = 12
    /\ \E j \in 1..11 : ret[j].OptimalTilt # ret[j + 1].OptimalTilt

\* An event of out concerns the year.
EventsOf(year, kinds) ==
    {k \in 1..Len(out) : out[k].kind \in kinds /\ year \in out[k].years}

\* C9: when loading a year's input fails the loader yields no dataset, the
\* failure is reported, and no arrangement analysis, sliding window analysis
\* or plot of that year is executed.
C9_FailedLoadSkipsAnalysis ==
    \A year \in DOMAIN analyzers :
        /\ (EventsOf(year, {"load_error"}) # {}) <=> analyzers[year].isNone
        /\ analyzers[year].isNone => EventsOf(year, AnalysisKinds) = {}

\* The script has ended after the analyses of 2023, the load of 2022 having
\* failed.
C9_SecondYearSkipped ==
    /\ main_pc = "done"
    /\ DOMAIN analyzers = {YEAR_TO_ANALYZE, YEAR_TO_ANALYZE_2}
    /\ analyzers[YEAR_TO_ANALYZE_2].isNone
    /\ EventsOf(YEAR_TO_ANALYZE_2, {"load_error"}) # {}
    /\ EventsOf(YEAR_TO_ANALYZE, {"sliding_table"}) # {}

\* C10: engine calls have no side effect: after any sequence of calls the
\* dataset is as it was after construction, and calculate_ghi_for_tilt
\* returns the value it returns on the dataset as constructed.
C10_DatasetUnchanged ==
    /\ data = LoadAndPrepareData(file)
    /\ Returned("calculate_ghi_for_tilt") =>
          FEq(ret, CalculateGhiForTilt(LoadAndPrepareData(file), call.tilt,
                                       call.months, call.sky))

\* calculate_ghi_for_tilt has returned a GHI after an earlier call on the
\* same analyzer.
C10_CalculateAfterCalls ==
    /\ Returned("calculate_ghi_for_tilt")
    /\ completed >= 1
    /\ Len(data.rows) = 2
    /\ FGreater(ret, PosZero)

\* The sum of the GHI of each distinct month of the list, taken alone.
SumOfDistinctMonths(d, tilt_degrees, months, sky_condition) ==
    SumFirst([k \in 1..Len(months) |->
                IF \E j \in 1..(k - 1) : months[j] = months[k]
                THEN PosZero
                ELSE CalculateGhiForTilt(d, tilt_degrees, <<months[k]>>, sky_condition)],
             Len(months))

\* The sum of the 12 monthly values of arrangement n in a monthly table.
ColumnTotal(table, n) == SumFirst([m \in 1..12 |-> table[m][n]], 12)

\* C11: calculate_ghi_for_tilt is additive over months and counts each record
\* once: its value for a month list is the sum of its values for the
\* distinct months of the list; and the 12 monthly values get_monthly_ghi_data
\* computes for arrangements 1, 2, 3, 5 and 6 sum to the total the matching
\* analyze_arrangement_N returns.
C11_MonthlyValuesSumToTotal ==
    /\ Returned("calculate_ghi_for_tilt") =>
          FEq(ret, SumOfDistinctMonths(data, call.tilt, call.months, call.sky))
    /\ Returned("get_monthly_ghi_data") =>
          \A n \in {1, 2, 3, 5, 6} :
              FEq(ColumnTotal(ret, n), AnalyzeArrangement(n, data, call.sky))

\* get_monthly_ghi_data has returned a table whose column of arrangement 6
\* does not sum to what analyze_arrangement_6 returns.
C11_AnnualColumnDiffers ==
    /\ Returned("get_monthly_ghi_data")
    /\ ~FEq(ColumnTotal(ret, 6), AnalyzeArrangement6(data, call.sky))

\* C12: the arrangement totals are ordered: arrangement 4 >= arrangement 5
\* >= arrangement 6 >= arrangement 1.
C12_ArrangementOrder ==
    Returned("analyze_arrangement") =>
        /\ call.n = 4 => FGeq(ret, AnalyzeArrangement5(data, call.sky))
        /\ call.n = 5 => FGeq(ret, AnalyzeArrangement6(data, call.sky))
        /\ call.n = 6 => FGeq(ret, AnalyzeArrangement1(data, call.sky))

\* analyze_arrangement_4 has returned less than analyze_arrangement_5
\* returns, on a dataset whose every month has a GHI below -1 or no record.
C12_MonthlyBelowSeasonal ==
    /\ Returned("analyze_arrangement")
    /\ call.n = 4
    /\ FLess(ret, AnalyzeArrangement5(data, call.sky))
    /\ \A m \in 1..12 : FindOptimalTilt(data, <<m>>, call.sky)[1] \in {-1, 0}

====
